---- MODULE Spec2Model ----
(***************************************************************************)
(* Model of Mentora.  The RAG backend: the text chunker, the lazily loaded *)
(* embedding pipeline, the chunk store (documents / document_chunks), the  *)
(* POST /ingest and POST /query request handlers, the prompt instruction   *)
(* of generateAnswer, and the rendering of an answer by the chat page.     *)
(* The calendar agent: tasks and their sync to Google Calendar / Google    *)
(* Tasks, study plans and their application, and the stored OAuth tokens.  *)
(*                                                                         *)
(* Texts are sequences of one-character strings.  JavaScript indices are   *)
(* kept 0-based (startChar, endChar, chunkIndex) as in the source.         *)
(***************************************************************************)
EXTENDS Integers, Sequences, FiniteSets, TLC

VARIABLES
    config,     \* config.rag of the process
    ckIn,       \* chunkText: the arguments of the call
    ckPc,       \* chunkText: "idle", "call", "loop" or "done"
    ckNorm,     \* chunkText: normalizedText
    ckLoop,     \* chunkText: startIndex, chunkIndex, chunks and whether the loop has left
    ckIters,    \* chunkText: iterations of the while loop so far
    nm,         \* preprocessText and chunkText applied to a text, and again to the result
    embeddingPipeline,  \* embeddings.js: the module variable (0: null, else the instance)
    pipelinePromise,    \* embeddings.js: the module variable (0: null, else the load it stands for)
    loads,              \* the model loads started so far, in order
    callers,            \* the calls into embeddings.js and where each stands
    handedOut,          \* the pipeline instances callers have received so far
    documents,  \* table documents: the titles, in insertion order (id = position)
    chunkRows,  \* table document_chunks: the rows, in insertion order (id = position)
    ingests,    \* the POST /ingest requests and where each stands
    queries,    \* the POST /query requests and where each stands
    tasks,        \* calendar agent, table tasks: the rows, in insertion order (id = position)
    events,       \* Google Calendar: the events inserted, in order (eventId = position)
    gtasks,       \* Google Tasks: the tasks inserted, in order (googleTaskId = position)
    studyPlans,   \* calendar agent, table study_plans: the rows (id = position)
    integration,  \* calendar agent, table user_integrations: the user's google row
    tokenCalls,   \* the calls of storeGoogleTokens / updateAccessToken answered so far
    procs         \* the calls into taskManager and where each stands

ckVars == <<ckIn, ckPc, ckNorm, ckLoop, ckIters, nm>>
emVars == <<embeddingPipeline, pipelinePromise, loads, callers, handedOut>>
rqVars == <<documents, chunkRows, ingests, queries>>
caVars == <<tasks, events, gtasks, studyPlans, integration, tokenCalls, procs>>
vars == <<config, caVars, ckVars, emVars, rqVars>>

(***************************************************************************)
(* Bounds of the model.                                                    *)
(***************************************************************************)
\* longest text given to chunkText in SpecChunk
MaxTextLen == 5
\* largest options.chunkSize / options.overlap a caller passes in SpecChunk
MaxOptChunkSize == 3
MaxOptOverlap == 2
\* longest batch given to generateEmbeddings in SpecEmbed
MaxBatch == 2
\* the deployment's environment in Spec: CHUNK_SIZE and CHUNK_OVERLAP
\* (TOP_K_RESULTS is left unset)
EnvChunkSize == 2
EnvChunkOverlap == 1
\* longest text preprocessed and chunked twice in SpecNorm
MaxNormLen == 5
\* SpecAnswer: the words of the longest question and the parts of the
\* longest completion
MaxWords == 2
MaxParts == 3
\* SpecPlan: the study plans created, the days of the longest schedule and
\* the sessions of its longest day
MaxPlans == 1
MaxDays == 2
MaxSessions == 2
\* SpecTokens: the calls of storeGoogleTokens / updateAccessToken
MaxTokenCalls == 3
\* the document of 2000 characters chunked with 500 / 50, at one fiftieth
ExampleLen == 40
ExampleChunkSize == 10
ExampleOverlap == 1

(***************************************************************************)
(* Program constants.                                                      *)
(***************************************************************************)
\* config.rag defaults: parseInt(process.env.X, 10) || default
DefaultChunkSize == 500
DefaultChunkOverlap == 50
DefaultTopK == 5

Min(a, b) == IF a < b THEN a ELSE b
Max(a, b) == IF a > b THEN a ELSE b

(***************************************************************************)
(* Characters and the string primitives of JavaScript the code uses.       *)
(***************************************************************************)
SP == " "
LF == "\n"
CR == "\r"
TAB == "\t"
NUL == "NUL"

\* the alphabet the texts of the model are drawn from
Chars == {"a", SP, LF, CR}

\* String.prototype.trim strips these (among the characters of the model)
IsWhitespace(c) == c \in {SP, LF, CR, TAB}

\* s.trim()
Trim(s) ==
    IF \A i \in 1..Len(s) : IsWhitespace(s[i])
    THEN <<>>
    ELSE LET first == CHOOSE i \in 1..Len(s) :
                         /\ ~IsWhitespace(s[i])
                         /\ \A j \in 1..(i - 1) : IsWhitespace(s[j])
             last  == CHOOSE i \in 1..Len(s) :
                         /\ ~IsWhitespace(s[i])
                         /\ \A j \in (i + 1)..Len(s) : IsWhitespace(s[j])
         IN  SubSeq(s, first, last)

\* s.slice(from, to) with JavaScript's treatment of negative and large indices
Slice(s, from, to) ==
    LET n == Len(s)
        f == IF from < 0 THEN Max(n + from, 0) ELSE Min(from, n)
        t == IF to < 0 THEN Max(n + to, 0) ELSE Min(to, n)
    IN  IF f < t THEN SubSeq(s, f + 1, t) ELSE <<>>

\* s.replace(/\r\n/g, '\n')
RECURSIVE ReplaceCRLF(_)
ReplaceCRLF(s) ==
    IF Len(s) = 0 THEN <<>>
    ELSE IF Len(s) >= 2 /\ s[1] = CR /\ s[2] = LF
         THEN <<LF>> \o ReplaceCRLF(SubSeq(s, 3, Len(s)))
         ELSE <<s[1]>> \o ReplaceCRLF(Tail(s))

\* the sequence of the s[i] with keep[i], in order
RECURSIVE KeepWhere(_, _, _)
KeepWhere(s, keep, i) ==
    IF i > Len(s) THEN <<>>
    ELSE (IF keep[i] THEN <<s[i]>> ELSE <<>>) \o KeepWhere(s, keep, i + 1)

\* s.replace(/\n{3,}/g, '\n\n'): of every maximal run of newlines the first
\* two are kept
CollapseNewlines(s) ==
    KeepWhere(s,
              [i \in 1..Len(s) |->
                  ~(i >= 3 /\ s[i] = LF /\ s[i - 1] = LF /\ s[i - 2] = LF)],
              1)

\* s.replace(/[ \t]+/g, ' '): of every maximal run of blanks one space is kept
CollapseBlanks(s) ==
    KeepWhere([i \in 1..Len(s) |-> IF s[i] = TAB THEN SP ELSE s[i]],
              [i \in 1..Len(s) |->
                  ~(i >= 2 /\ s[i] \in {SP, TAB} /\ s[i - 1] \in {SP, TAB})],
              1)

\* s.replace(/\0/g, '')
RemoveNul(s) == SelectSeq(s, LAMBDA c : c # NUL)

(***************************************************************************)
(* chunker.js                                                              *)
(***************************************************************************)
\* a || b on numbers: 0 (like undefined and NaN) is falsy
OrElse(a, b) == IF a # 0 THEN a ELSE b

\* the normalisation at the head of chunkText
NormalizeWhitespace(text) == Trim(CollapseNewlines(ReplaceCRLF(text)))

\* preprocessText(text)
preprocessText(text) == Trim(RemoveNul(ReplaceCRLF(CollapseBlanks(text))))

\* the loop variables of chunkText before the first iteration
ChunkLoopInit ==
    [startIndex |-> 0, chunkIndex |-> 0, chunks |-> <<>>, done |-> FALSE]

KeepsChunkAlways(chunkContent) == TRUE

\* the guard of the push: chunkContent.trim().length > 0
KeepsChunk(chunkContent) == Len(Trim(chunkContent)) > 0

\* "Move to next chunk position (subtract overlap)"
NextStartIndexAdds(endIndex, overlap) == endIndex + overlap

NextStartIndex(endIndex, overlap) == endIndex - overlap

\* one iteration of the while loop of chunkText
ChunkLoopBody(normalizedText, chunkSize, overlap, st) ==
    LET endIndex == Min(st.startIndex + chunkSize, Len(normalizedText))
        chunkContent == Slice(normalizedText, st.startIndex, endIndex)
        keep == KeepsChunk(chunkContent)
        startIndex2 == NextStartIndex(endIndex, overlap)
    IN  [startIndex |-> startIndex2,
         chunkIndex |-> IF keep THEN st.chunkIndex + 1 ELSE st.chunkIndex,
         chunks |-> IF keep
                    THEN Append(st.chunks,
                                [content |-> chunkContent,
                                 index |-> st.chunkIndex,
                                 startChar |-> st.startIndex,
                                 endChar |-> endIndex])
                    ELSE st.chunks,
         done |-> \/ startIndex2 >= Len(normalizedText)
                  \/ endIndex = Len(normalizedText)]

\* the while loop of chunkText run to its end (only where it ends:
\* overlap < chunkSize)
RECURSIVE ChunkLoop(_, _, _, _)
ChunkLoop(normalizedText, chunkSize, overlap, st) ==
    IF st.done THEN st.chunks
    ELSE ChunkLoop(normalizedText, chunkSize, overlap,
                   ChunkLoopBody(normalizedText, chunkSize, overlap, st))

\* chunkText(text, options) under configuration cfg, as a function of its
\* inputs; options.chunkSize / options.overlap are 0 when absent
chunkText(text, optChunkSize, optOverlap, cfg) ==
    IF Len(Trim(text)) = 0 THEN <<>>
    ELSE ChunkLoop(NormalizeWhitespace(text),
                   OrElse(optChunkSize, cfg.chunkSize),
                   OrElse(optOverlap, cfg.chunkOverlap),
                   ChunkLoopInit)

\* config.rag as built from the environment (0: variable unset or not a
\* number)
RagConfig(envChunkSize, envChunkOverlap, envTopK) ==
    [chunkSize |-> OrElse(envChunkSize, DefaultChunkSize),
     chunkOverlap |-> OrElse(envChunkOverlap, DefaultChunkOverlap),
     topK |-> OrElse(envTopK, DefaultTopK)]

\* all texts of at most n characters
TextsUpTo(n) == UNION {[1..k -> Chars] : k \in 0..n}

NoText == <<>>

(***************************************************************************)
(* The requests of Spec                                                    *)
(***************************************************************************)
Ingests == {"i1", "i2"}
Queries == {"q1"}

\* a call the handler makes out of the process (to the PDF parser, the
\* embedding model, Supabase or Groq); arg is the chunk it is about
Call(op, arg) == [op |-> op, arg |-> arg]

Procs == {"p1", "p2", "p3"}

\* a call into taskManager that has not been made yet
NewProc ==
    [kind |-> "none", pc |-> "idle", userId |-> "u1",
     syncToGoogle |-> FALSE, syncToTasks |-> FALSE,
     title |-> "", deadline |-> 0, plan |-> 0, schedule |-> <<>>, day |-> 0,
     session |-> 0, unsynced |-> <<>>, i |-> 0, task |-> 0, created |-> 0,
     errors |-> <<>>, synced |-> 0, failed |-> 0, results |-> <<>>,
     tasksCreated |-> 0, dayErrors |-> <<>>, calls |-> <<>>, error |-> "none"]

NoIntegration ==
    [stored |-> FALSE, access_token |-> "", refresh_token |-> "", token_expiry |-> 0]

\* the calendar agent is not modelled
AgentIdle ==
    /\ tasks = <<>>
    /\ events = <<>>
    /\ gtasks = <<>>
    /\ studyPlans = <<>>
    /\ integration = NoIntegration
    /\ tokenCalls = <<>>
    /\ procs = [p \in Procs |-> NewProc]

NewIngest ==
    [pc |-> "idle", file |-> "none", chunks |-> <<>>, embeddings |-> <<>>,
     documentId |-> 0, i |-> 0, steps |-> <<>>, calls |-> <<>>, status |-> 0,
     failedAt |-> "none", error |-> "none", failedChunk |-> -1]

NoResponse == [answer |-> <<>>, sources |-> <<>>, hasContext |-> FALSE]

NewQuery ==
    [pc |-> "idle", question |-> [type |-> "undefined", text |-> <<>>],
     topK |-> [given |-> FALSE, value |-> 0],
     resultLimit |-> 0, queryEmbedding |-> <<>>, searched |-> FALSE,
     fetched |-> 0, similarChunks |-> <<>>, llmCalls |-> 0, calls |-> <<>>,
     contextSimilarities |-> <<>>, instruction |-> <<>>, status |-> 0,
     error |-> "none", response |-> NoResponse, rendered |-> "none"]

\* no request is modelled
RequestsIdle ==
    /\ documents = <<>>
    /\ chunkRows = <<>>
    /\ ingests = [r \in Ingests |-> NewIngest]
    /\ queries = [q \in Queries |-> NewQuery]

NormIdle == [pc |-> "idle", text |-> NoText, cleaned |-> <<>>, chunks |-> <<>>]

\* no call of chunkText is modelled
ChunkIdle ==
    /\ ckIn = [text |-> NoText, optChunkSize |-> 0, optOverlap |-> 0]
    /\ ckPc = "idle"
    /\ ckNorm = NoText
    /\ ckLoop = ChunkLoopInit
    /\ ckIters = 0
    /\ nm = NormIdle

(***************************************************************************)
(* embeddings.js                                                           *)
(*                                                                         *)
(* Node runs each piece of code between two awaits without interruption,   *)
(* so one action is the run of a call from one suspension point to the     *)
(* next.                                                                   *)
(***************************************************************************)
Callers == {"c1", "c2", "c3"}

\* the texts given to the embedder: blank and not blank
EmbedTexts == {<<SP>>, <<"a">>}

\* the texts given to the embedder in SpecBatch: empty, blank, and two that
\* differ
BatchTexts == {<<>>, <<SP>>, <<"a">>, <<"a", "a">>}

\* text.slice(0, 2000)
MaxEmbedChars == 2000

\* the vector the model returns for a text: a function of the text it is
\* given, the truncated one
ModelOutput(text) == [embeddingOf |-> Slice(text, 0, MaxEmbedChars)]

\* what an await waits for: a value at hand, or the promise of load `of`
Value(inst) == [kind |-> "value", of |-> inst]
Promise(load) == [kind |-> "promise", of |-> load]
NoAwait == [kind |-> "none", of |-> 0]

CallerInputs ==
    [kind : {"getEmbeddingPipeline"}, texts : {<<>>}]
    \cup [kind : {"generateEmbedding"}, texts : {<<t>> : t \in EmbedTexts}]
    \cup [kind : {"generateEmbeddings"},
          texts : UNION {[1..k -> EmbedTexts] : k \in 0..MaxBatch}]

NewCaller(in) ==
    [kind |-> in.kind, texts |-> in.texts, pc |-> "start", awaiting |-> NoAwait,
     i |-> 0, extractor |-> 0, embeddings |-> <<>>, error |-> "none"]

EmbedIdle ==
    /\ embeddingPipeline = 0
    /\ pipelinePromise = 0
    /\ loads = <<>>
    /\ callers = [c \in Callers |->
                    [NewCaller([kind |-> "getEmbeddingPipeline", texts |-> <<>>])
                        EXCEPT !.pc = "idle"]]
    /\ handedOut = {}

InitEmbed ==
    /\ config = RagConfig(0, 0, 0)
    /\ AgentIdle
    /\ ChunkIdle
    /\ RequestsIdle
    /\ embeddingPipeline = 0
    /\ pipelinePromise = 0
    /\ loads = <<>>
    /\ callers \in [Callers -> {NewCaller(in) : in \in CallerInputs}]
    /\ handedOut = {}

\* one call of generateEmbeddings, one single call beside it
InitBatch ==
    /\ config = RagConfig(0, 0, 0)
    /\ AgentIdle
    /\ ChunkIdle
    /\ RequestsIdle
    /\ embeddingPipeline = 0
    /\ pipelinePromise = 0
    /\ loads = <<>>
    /\ \E batch \in UNION {[1..k -> BatchTexts] : k \in 0..MaxBatch},
          single \in [kind : {"getEmbeddingPipeline"}, texts : {<<>>}]
                      \cup [kind : {"generateEmbedding"},
                            texts : {<<t>> : t \in BatchTexts}] :
          callers = [c \in Callers |->
              CASE c = "c1" -> NewCaller([kind |-> "generateEmbeddings", texts |-> batch])
                [] c = "c2" -> NewCaller(single)
                [] OTHER -> [NewCaller(single) EXCEPT !.pc = "idle"]]
    /\ handedOut = {}

ReusesPromiseUnlessRejected ==
    pipelinePromise # 0 /\ loads[pipelinePromise].state # "rejected"

ReusesPromiseNever == FALSE

\* if (pipelinePromise) return pipelinePromise;
ReusesPromise == pipelinePromise # 0

\* the synchronous part of getEmbeddingPipeline() called by c, which then
\* awaits the result at `pc`; `base` is c's record at the call
CallGetPipeline(c, pc, base) ==
    IF embeddingPipeline # 0
    THEN /\ callers' = [callers EXCEPT ![c] =
                 [base EXCEPT !.pc = pc, !.awaiting = Value(embeddingPipeline)]]
         /\ UNCHANGED <<loads, pipelinePromise>>
    ELSE IF ReusesPromise
    THEN /\ callers' = [callers EXCEPT ![c] =
                 [base EXCEPT !.pc = pc, !.awaiting = Promise(pipelinePromise)]]
         /\ UNCHANGED <<loads, pipelinePromise>>
    ELSE \* the async arrow function runs up to its await import(...)
         /\ loads' = Append(loads, [state |-> "importing", instance |-> 0])
         /\ pipelinePromise' = Len(loads) + 1
         /\ callers' = [callers EXCEPT ![c] =
                 [base EXCEPT !.pc = pc, !.awaiting = Promise(Len(loads) + 1)]]

IsEmptyTextUntrimmed(text) == Len(text) = 0

\* if (!text || text.trim().length === 0)
IsEmptyText(text) == Len(text) = 0 \/ Len(Trim(text)) = 0

\* the synchronous part of generateEmbedding(base.texts[base.i]) called by c
CallGenerateEmbedding(c, base) ==
    IF IsEmptyText(base.texts[base.i])
    THEN /\ callers' = [callers EXCEPT ![c] =
                 [base EXCEPT !.pc = "failed", !.awaiting = NoAwait,
                              !.error = "Cannot generate embedding for empty text"]]
         /\ UNCHANGED <<loads, pipelinePromise>>
    ELSE CallGetPipeline(c, "pipeline", base)

\* a call arrives and runs to its first suspension point
CallerStart(c) ==
    /\ callers[c].pc = "start"
    /\ CASE callers[c].kind = "getEmbeddingPipeline" ->
                CallGetPipeline(c, "get", callers[c])
         [] callers[c].kind = "generateEmbedding" ->
                CallGenerateEmbedding(c, [callers[c] EXCEPT !.i = 1])
         [] callers[c].kind = "generateEmbeddings" ->
                CallGetPipeline(c, "warm", callers[c])
    /\ UNCHANGED <<config, caVars, ckVars, rqVars, embeddingPipeline, handedOut>>

\* const { pipeline } = await import('@xenova/transformers') resolves
LoadImported(l) ==
    /\ loads[l].state = "importing"
    /\ loads' = [loads EXCEPT ![l].state = "creating"]
    /\ UNCHANGED <<config, caVars, ckVars, rqVars, embeddingPipeline, pipelinePromise, callers, handedOut>>

\* embeddingPipeline = await pipeline(...) resolves with a new instance,
\* which the load's promise resolves to
LoadCreated(l) ==
    /\ loads[l].state = "creating"
    /\ embeddingPipeline' = l
    /\ loads' = [loads EXCEPT ![l] = [state |-> "resolved", instance |-> l]]
    /\ UNCHANGED <<config, caVars, ckVars, rqVars, pipelinePromise, callers, handedOut>>

\* the import or the model load throws: the load's promise is rejected
LoadFails(l) ==
    /\ loads[l].state \in {"importing", "creating"}
    /\ loads' = [loads EXCEPT ![l].state = "rejected"]
    /\ UNCHANGED <<config, caVars, ckVars, rqVars, embeddingPipeline, pipelinePromise, callers, handedOut>>

IsSettled(a) ==
    \/ a.kind = "value"
    \/ a.kind = "promise" /\ loads[a.of].state \in {"resolved", "rejected"}

IsRejected(a) == a.kind = "promise" /\ loads[a.of].state = "rejected"

ResolvedTo(a) == IF a.kind = "value" THEN a.of ELSE loads[a.of].instance

\* c's await getEmbeddingPipeline() returns the pipeline and c runs on to
\* its next suspension point
AwaitReturns(c) ==
    LET me == callers[c]
        inst == ResolvedTo(me.awaiting)
    IN  /\ me.pc \in {"get", "warm", "pipeline"}
        /\ IsSettled(me.awaiting)
        /\ ~IsRejected(me.awaiting)
        /\ handedOut' = handedOut \cup {inst}
        /\ CASE me.pc = "get" ->
                    /\ callers' = [callers EXCEPT ![c] =
                            [me EXCEPT !.pc = "done", !.awaiting = NoAwait,
                                       !.extractor = inst]]
                    /\ UNCHANGED <<loads, pipelinePromise>>
             [] me.pc = "warm" ->
                    IF Len(me.texts) = 0
                    THEN /\ callers' = [callers EXCEPT ![c] =
                                 [me EXCEPT !.pc = "done", !.awaiting = NoAwait]]
                         /\ UNCHANGED <<loads, pipelinePromise>>
                    ELSE CallGenerateEmbedding(c, [me EXCEPT !.i = 1])
             [] me.pc = "pipeline" ->
                    \* await extractor(truncatedText, ...) is entered
                    /\ callers' = [callers EXCEPT ![c] =
                            [me EXCEPT !.pc = "extract", !.awaiting = NoAwait,
                                       !.extractor = inst]]
                    /\ UNCHANGED <<loads, pipelinePromise>>
        /\ UNCHANGED <<config, caVars, ckVars, rqVars, embeddingPipeline>>

\* c's await getEmbeddingPipeline() throws: the load was rejected
AwaitThrows(c) ==
    LET me == callers[c]
    IN  /\ me.pc \in {"get", "warm", "pipeline"}
        /\ IsRejected(me.awaiting)
        /\ callers' = [callers EXCEPT ![c] =
                [me EXCEPT !.pc = "failed", !.awaiting = NoAwait,
                           !.error = IF me.pc = "pipeline"
                                     THEN "Embedding failed" ELSE "load failed"]]
        /\ UNCHANGED <<config, caVars, ckVars, rqVars, embeddingPipeline, pipelinePromise, loads, handedOut>>

ExtractReturnsUnshifts(c) ==
    LET me == callers[c]
        got == [me EXCEPT !.embeddings = <<ModelOutput(me.texts[me.i])>> \o @]
    IN  /\ me.pc = "extract"
        /\ IF me.kind = "generateEmbeddings" /\ me.i < Len(me.texts)
           THEN CallGenerateEmbedding(c, [got EXCEPT !.i = @ + 1])
           ELSE /\ callers' = [callers EXCEPT ![c] = [got EXCEPT !.pc = "done"]]
                /\ UNCHANGED <<loads, pipelinePromise>>
        /\ UNCHANGED <<config, caVars, ckVars, rqVars, embeddingPipeline, handedOut>>

\* the model returns the vector of c's current text; generateEmbedding
\* returns it, and generateEmbeddings pushes it and goes on with its next
\* text
ExtractReturns(c) ==
    LET me == callers[c]
        got == [me EXCEPT !.embeddings = Append(@, ModelOutput(me.texts[me.i]))]
    IN  /\ me.pc = "extract"
        /\ IF me.kind = "generateEmbeddings" /\ me.i < Len(me.texts)
           THEN CallGenerateEmbedding(c, [got EXCEPT !.i = @ + 1])
           ELSE /\ callers' = [callers EXCEPT ![c] = [got EXCEPT !.pc = "done"]]
                /\ UNCHANGED <<loads, pipelinePromise>>
        /\ UNCHANGED <<config, caVars, ckVars, rqVars, embeddingPipeline, handedOut>>

\* the model call throws: catch, log, throw new Error('Embedding failed: ...')
ExtractThrows(c) ==
    /\ callers[c].pc = "extract"
    /\ callers' = [callers EXCEPT ![c].pc = "failed", ![c].error = "Embedding failed"]
    /\ UNCHANGED <<config, caVars, ckVars, rqVars, embeddingPipeline, pipelinePromise, loads, handedOut>>

NextEmbed ==
    \/ \E c \in Callers :
          \/ CallerStart(c)
          \/ AwaitReturns(c)
          \/ AwaitThrows(c)
          \/ ExtractReturns(c)
          \/ ExtractThrows(c)
    \/ \E l \in 1..Len(loads) :
          \/ LoadImported(l)
          \/ LoadCreated(l)
          \/ LoadFails(l)

SpecEmbed == InitEmbed /\ [][NextEmbed]_vars

SpecBatch == InitBatch /\ [][NextEmbed]_vars

(***************************************************************************)
(* Claims on the embedding pipeline                                        *)
(***************************************************************************)
\* C1: the model load is started at most once per process, and every caller
\* that gets a pipeline gets the same instance; a caller that waits, waits
\* for the one load in flight.
C1_SingleFlight ==
    /\ Len(loads) <= 1
    /\ Cardinality(handedOut) <= 1
    /\ \A c \in Callers :
          callers[c].awaiting.kind = "promise" => callers[c].awaiting.of = 1

\* callers arrived before, during and after the load, and all have the pipeline
C1_Witness ==
    /\ Len(loads) = 1
    /\ handedOut = {1}
    /\ \E c1, c2, c3 \in Callers :
          /\ callers[c1].awaiting = Promise(1) /\ loads[1].state = "resolved"
          /\ callers[c2].pc \in {"done", "extract"} /\ callers[c2].extractor = 1
          /\ callers[c3].awaiting = Value(1)

\* a text without a character that is not whitespace
BlankText(text) == \A k \in 1..Len(text) : IsWhitespace(text[k])

\* C16: a call of generateEmbeddings(texts) that returns, returns as many
\* vectors as there are texts, the i-th being the vector generateEmbedding
\* returns for texts[i]; and while the embedding of text i is under way the
\* vectors of the texts before it, and no others, have been pushed (the
\* calls are made one after the other, in input order).
C16_BatchIsSequentialMap ==
    \A c \in Callers :
        callers[c].kind = "generateEmbeddings" =>
            /\ callers[c].pc = "done" =>
                  callers[c].embeddings =
                      [k \in 1..Len(callers[c].texts) |->
                          ModelOutput(callers[c].texts[k])]
            /\ callers[c].pc \in {"pipeline", "extract"} =>
                  /\ callers[c].i \in 1..Len(callers[c].texts)
                  /\ Len(callers[c].embeddings) = callers[c].i - 1
            /\ \A k \in 1..Len(callers[c].embeddings) :
                  callers[c].embeddings[k] = ModelOutput(callers[c].texts[k])

\* a batch of two different texts has been embedded while another call used
\* the same pipeline
C16_Witness ==
    \E c, d \in Callers :
        /\ callers[c].kind = "generateEmbeddings"
        /\ callers[c].pc = "done"
        /\ Len(callers[c].embeddings) = 2
        /\ callers[c].embeddings[1] # callers[c].embeddings[2]
        /\ callers[d].kind = "generateEmbedding"
        /\ callers[d].pc = "done"

EmptyTextError == "Cannot generate embedding for empty text"

C17_State ==
    \A c \in Callers :
        /\ (callers[c].kind = "generateEmbedding" /\ BlankText(callers[c].texts[1])
                /\ callers[c].pc \notin {"idle", "start"}) =>
              /\ callers[c].pc = "failed"
              /\ callers[c].error = EmptyTextError
              /\ callers[c].extractor = 0
              /\ callers[c].embeddings = <<>>
        /\ callers[c].pc \in {"pipeline", "extract"} =>
              ~BlankText(callers[c].texts[callers[c].i])

C17_Step ==
    \A c \in Callers :
        (callers[c].pc # "failed" /\ callers'[c].pc = "failed"
            /\ callers'[c].error = EmptyTextError) =>
            /\ BlankText(callers[c].texts[callers'[c].i])
            /\ loads' = loads
            /\ pipelinePromise' = pipelinePromise
            /\ embeddingPipeline' = embeddingPipeline

\* C17: a call of generateEmbedding with an empty or whitespace-only text
\* fails with the empty-text error; the model is never given such a text,
\* and the step in which the call fails starts no model load.
C17_EmptyTextFails == []C17_State /\ [][C17_Step]_vars

\* generateEmbedding of a whitespace-only text has failed while no model
\* load was ever started
C17_Witness ==
    \E c \in Callers :
        /\ callers[c].kind = "generateEmbedding"
        /\ callers[c].texts = <<(<<SP>>)>>
        /\ callers[c].pc = "failed"
        /\ callers[c].error = EmptyTextError
        /\ loads = <<>>

(***************************************************************************)
(* SpecChunk: one call of chunkText(text, options), one loop iteration per *)
(* step.                                                                   *)
(***************************************************************************)
\* a loop that has not left after this many iterations never leaves: with
\* overlap < chunkSize every iteration moves startIndex forward by at least
\* 1, and with overlap >= chunkSize startIndex never moves forward, so that
\* a loop that does not leave in its first iteration does not leave at all
MaxIters(normalizedText) == Len(normalizedText) + 2

\* a document without whitespace, chunked with explicit options
ExampleCall ==
    [text |-> [i \in 1..ExampleLen |-> "a"],
     optChunkSize |-> ExampleChunkSize, optOverlap |-> ExampleOverlap]

ChunkSizeOf(in, cfg) == OrElse(in.optChunkSize, cfg.chunkSize)
OverlapOf(in, cfg) == OrElse(in.optOverlap, cfg.chunkOverlap)

InitChunk ==
    /\ config = RagConfig(0, 0, 0)
    /\ AgentIdle
    /\ EmbedIdle
    /\ RequestsIdle
    /\ ckIn \in [text : TextsUpTo(MaxTextLen),
                 optChunkSize : 0..MaxOptChunkSize,
                 optOverlap : 0..MaxOptOverlap] \cup {ExampleCall}
    /\ ckPc = "call"
    /\ ckNorm = NoText
    /\ ckLoop = ChunkLoopInit
    /\ ckIters = 0
    /\ nm = NormIdle

\* chunkText up to the loop: the empty-text return and the normalisation
ChunkCall ==
    /\ ckPc = "call"
    /\ IF Len(Trim(ckIn.text)) = 0
       THEN /\ ckPc' = "done"
            /\ ckNorm' = ckNorm
       ELSE /\ ckPc' = "loop"
            /\ ckNorm' = NormalizeWhitespace(ckIn.text)
    /\ UNCHANGED <<config, caVars, ckIn, ckLoop, ckIters, nm, emVars, rqVars>>

\* one iteration of the while loop
ChunkIterate ==
    /\ ckPc = "loop"
    /\ ~ckLoop.done
    /\ ckIters < MaxIters(ckNorm)
    /\ ckLoop' = ChunkLoopBody(ckNorm, ChunkSizeOf(ckIn, config),
                               OverlapOf(ckIn, config), ckLoop)
    /\ ckIters' = ckIters + 1
    /\ UNCHANGED <<config, caVars, ckIn, ckPc, ckNorm, nm, emVars, rqVars>>

\* the loop has left: return chunks
ChunkReturn ==
    /\ ckPc = "loop"
    /\ ckLoop.done
    /\ ckPc' = "done"
    /\ UNCHANGED <<config, caVars, ckIn, ckNorm, ckLoop, ckIters, nm, emVars, rqVars>>

NextChunk == ChunkCall \/ ChunkIterate \/ ChunkReturn

SpecChunk == InitChunk /\ [][NextChunk]_vars

(***************************************************************************)
(* Claims on chunkText                                                     *)
(***************************************************************************)
\* the call has returned a non-empty text's chunks under a configuration
\* the contract admits (0 <= overlap < chunkSize)
ChunkReturned ==
    /\ ckPc = "done"
    /\ Len(Trim(ckIn.text)) > 0
    /\ OverlapOf(ckIn, config) < ChunkSizeOf(ckIn, config)

\* position p (0-based) of the normalized text lies in a returned span
Covered(p) ==
    \E k \in 1..Len(ckLoop.chunks) :
        ckLoop.chunks[k].startChar <= p /\ p < ckLoop.chunks[k].endChar

NoEmptyChunk ==
    \A k \in 1..Len(ckLoop.chunks) : Len(Trim(ckLoop.chunks[k].content)) > 0

\* C2 as stated: the spans of the returned chunks cover every character
\* position of the normalized text, and no returned chunk is empty after trim.
C2_EveryCharCovered ==
    ChunkReturned =>
        /\ \A p \in 0..(Len(ckNorm) - 1) : Covered(p)
        /\ NoEmptyChunk

\* C2 as amended: the spans of the returned chunks cover every
\* non-whitespace character of the normalized text (a position is left
\* out only where it is whitespace, in windows skipped as whitespace-only),
\* and no returned chunk is empty after trim.
C2_NonBlankCovered ==
    ChunkReturned =>
        /\ \A p \in 0..(Len(ckNorm) - 1) :
              ~IsWhitespace(ckNorm[p + 1]) => Covered(p)
        /\ NoEmptyChunk

\* a text of several windows has been chunked and one window was skipped
C2_Witness ==
    /\ ChunkReturned
    /\ Len(ckLoop.chunks) >= 2
    /\ ckIters > Len(ckLoop.chunks)
    /\ \E p \in 0..(Len(ckNorm) - 1) : ~Covered(p)

\* the call was given a non-empty text and its effective overlap is not
\* below its effective chunk size
Misconfigured ==
    /\ Len(Trim(ckIn.text)) > 0
    /\ OverlapOf(ckIn, config) >= ChunkSizeOf(ckIn, config)

\* C12 as stated: a call of chunkText with overlap >= chunkSize is rejected
\* with a configuration error: it never runs the loop and returns no chunk.
C12_OverlapRejected ==
    (ckPc # "call" /\ Misconfigured) =>
        /\ ckPc = "rejected"
        /\ ckLoop.chunks = <<>>

\* the caller passed chunkSize > 0 and an overlap with 0 <= overlap <
\* chunkSize (an overlap of 0 included)
CallerWithinContract ==
    /\ ckIn.optChunkSize > 0
    /\ 0 <= ckIn.optOverlap
    /\ ckIn.optOverlap < ckIn.optChunkSize

\* the loop has run the iterations after which it cannot leave any more
LoopNeverLeaves ==
    ckPc = "loop" /\ ~ckLoop.done /\ ckIters >= MaxIters(ckNorm)

\* C13 as stated: no call of chunkText whose caller passes chunkSize > 0 and
\* 0 <= overlap < chunkSize runs its loop forever, and when such a call
\* returns the chunks of a non-empty text, the last window it emitted ends
\* at the end of the normalized text.
C13_Terminates ==
    CallerWithinContract =>
        /\ ~LoopNeverLeaves
        /\ (ckPc = "done" /\ Len(Trim(ckIn.text)) > 0) =>
              /\ Len(ckLoop.chunks) > 0
              /\ ckLoop.chunks[Len(ckLoop.chunks)].endChar = Len(ckNorm)

\* ceil(a / b) for b > 0
CeilDiv(a, b) == -((-a) \div b)

\* the number of chunks by the formula ceil((L - overlap) / (chunkSize - overlap))
ChunkCountFormula ==
    CeilDiv(Len(ckNorm) - OverlapOf(ckIn, config),
            ChunkSizeOf(ckIn, config) - OverlapOf(ckIn, config))

\* C19 as stated: the number of chunks returned differs by at most 1 from
\* ceil((L - overlap) / (chunkSize - overlap)).
C19_CountWithinOne ==
    ChunkReturned =>
        /\ Len(ckLoop.chunks) - ChunkCountFormula <= 1
        /\ ChunkCountFormula - Len(ckLoop.chunks) <= 1

\* the windows the loop visits by the formula: at least one
WindowCount == Max(1, ChunkCountFormula)

\* window k (from 0) of the normalized text holds whitespace only
BlankWindow(k) ==
    LET step == ChunkSizeOf(ckIn, config) - OverlapOf(ckIn, config)
        from == k * step
        to == Min(from + ChunkSizeOf(ckIn, config), Len(ckNorm))
    IN  \A p \in (from + 1)..to : IsWhitespace(ckNorm[p])

\* C19 as amended: the loop visits max(1, ceil((L - overlap) / (chunkSize -
\* overlap))) windows, and the number of chunks returned is that number less
\* the number of whitespace-only windows, and is at least 1.
C19_CountIsWindowsLessBlank ==
    ChunkReturned =>
        /\ ckIters = WindowCount
        /\ Len(ckLoop.chunks)
              = WindowCount - Cardinality({k \in 0..(WindowCount - 1) : BlankWindow(k)})
        /\ Len(ckLoop.chunks) >= 1

\* a returned call two of whose windows were whitespace-only, so that the
\* count is 2 below the formula
C19_Witness ==
    /\ ChunkReturned
    /\ ChunkCountFormula = 4
    /\ Len(ckLoop.chunks) = 2
    /\ BlankWindow(1) /\ BlankWindow(2)

(***************************************************************************)
(* SpecNorm: a text goes through preprocessText and chunkText as in the    *)
(* ingest handler, and what preprocessText returned goes through both a    *)
(* second time.                                                            *)
(***************************************************************************)
InitNorm ==
    /\ config = RagConfig(EnvChunkSize, EnvChunkOverlap, 0)
    /\ AgentIdle
    /\ EmbedIdle
    /\ RequestsIdle
    /\ ckIn = [text |-> NoText, optChunkSize |-> 0, optOverlap |-> 0]
    /\ ckPc = "idle"
    /\ ckNorm = NoText
    /\ ckLoop = ChunkLoopInit
    /\ ckIters = 0
    /\ \E text \in UNION {[1..k -> Chars \cup {NUL}] : k \in 0..MaxNormLen} :
          nm = [NormIdle EXCEPT !.pc = "start", !.text = text]

\* const cleanedText = preprocessText(text); const chunks = chunkText(cleanedText)
NormChunk ==
    /\ nm.pc \in {"start", "once"}
    /\ LET cleanedText == preprocessText(IF nm.pc = "start" THEN nm.text
                                         ELSE nm.cleaned[1])
       IN  nm' = [nm EXCEPT !.pc = IF nm.pc = "start" THEN "once" ELSE "twice",
                            !.cleaned = Append(@, cleanedText),
                            !.chunks = Append(@, chunkText(cleanedText, 0, 0, config))]
    /\ UNCHANGED <<config, caVars, ckIn, ckPc, ckNorm, ckLoop, ckIters, emVars, rqVars>>

NextNorm == NormChunk

SpecNorm == InitNorm /\ [][NextNorm]_vars

\* C18 as stated: preprocessing and chunking the output of preprocessText
\* once more yields the same chunks (startChar, endChar and content) as
\* chunking that output once.
C18_NormalizationIdempotent ==
    nm.pc = "twice" => nm.chunks[2] = nm.chunks[1]

(***************************************************************************)
(* db/supabase.js and routes/ingest.js                                     *)
(*                                                                         *)
(* A call to Supabase, to the PDF parser or to the embedding model is one  *)
(* step: it answers with its result (and then has taken effect) or with an *)
(* error (and then has not).  The handler's code from one await to the     *)
(* next runs within the step that ends the await.                          *)
(***************************************************************************)
\* what the embedding model may answer: vectors of length 1, written in
\* fifths (<<-3, 4>> is (-0.6, 0.8)), so that every norm is a whole number
ModelVectors == {<<5, 0>>, <<-3, 4>>}

\* what pdf-parse may extract from an upload
ExtractTexts == {<<>>, <<NUL>>, <<"a">>, <<"a", LF, LF, "a">>}

IngestOrder ==
    <<"validate", "extract", "chunk", "embed", "createDocument", "insertChunks">>

\* the handler throws: the error handler answers with err.statusCode || 500
Fail(rec, status, step, message) ==
    [rec EXCEPT !.pc = "responded", !.status = status, !.failedAt = step,
                !.error = message]

ChunkRowOneBased(documentId, chunk, i) ==
    [document_id |-> documentId, content |-> chunk.content,
     embedding |-> chunk.embedding,
     metadata |-> [chunkIndex |-> i + 1, charCount |-> Len(chunk.content)]]

\* the row insertChunks inserts for chunks[i]
ChunkRow(documentId, chunk, i) ==
    [document_id |-> documentId, content |-> chunk.content,
     embedding |-> chunk.embedding,
     metadata |-> [chunkIndex |-> i, charCount |-> Len(chunk.content)]]

\* chunks.map((chunk, index) => ({content, embedding: embeddings[index]}))
ChunksWithEmbeddings(chunks, embeddings) ==
    [k \in 1..Len(chunks) |->
        [content |-> chunks[k].content, embedding |-> embeddings[k]]]

\* POST /ingest arrives: the file checks, then extractText is called
IngestReceive(r, file) ==
    /\ ingests[r].pc = "idle"
    /\ LET me == [ingests[r] EXCEPT !.file = file, !.steps = <<"validate">>]
       IN  ingests' = [ingests EXCEPT ![r] =
               CASE file = "none" ->
                        Fail(me, 400, "validate", "No file uploaded")
                 [] file = "notPdf" ->
                        Fail(me, 400, "validate", "Invalid PDF file format")
                 [] file = "pdf" ->
                        [me EXCEPT !.pc = "extracting",
                                   !.steps = Append(@, "extract"),
                                   !.calls = Append(@, Call("extractText", 0))]]
    /\ UNCHANGED <<config, caVars, ckVars, emVars, documents, chunkRows, queries>>

\* extractText returns: the empty-text check, preprocessing and chunking,
\* then generateEmbeddings is called
IngestExtractReturns(r, text) ==
    /\ ingests[r].pc = "extracting"
    /\ LET me == ingests[r]
           chunks == chunkText(preprocessText(text), 0, 0, config)
           chunked == [me EXCEPT !.steps = Append(@, "chunk")]
       IN  ingests' = [ingests EXCEPT ![r] =
               IF IsEmptyText(text)
               THEN Fail(me, 422, "extract", "Could not extract text from PDF")
               ELSE IF Len(chunks) = 0
               THEN Fail(chunked, 422, "chunk", "No valid chunks could be created")
               ELSE [chunked EXCEPT !.pc = "embedding", !.chunks = chunks,
                                    !.steps = Append(@, "embed"),
                                    !.calls = Append(@, Call("generateEmbedding", 0))]]
    /\ UNCHANGED <<config, caVars, ckVars, emVars, documents, chunkRows, queries>>

\* extractText throws
IngestExtractThrows(r) ==
    /\ ingests[r].pc = "extracting"
    /\ ingests' = [ingests EXCEPT ![r] =
            Fail(@, 500, "extract", "PDF extraction failed")]
    /\ UNCHANGED <<config, caVars, ckVars, emVars, documents, chunkRows, queries>>

\* generateEmbeddings: the model answers for the next chunk; after the last
\* chunk generateEmbeddings returns and createDocument is called
IngestEmbedReturns(r, vector) ==
    /\ ingests[r].pc = "embedding"
    /\ LET me == [ingests[r] EXCEPT !.embeddings = Append(@, vector)]
       IN  ingests' = [ingests EXCEPT ![r] =
               IF Len(me.embeddings) < Len(me.chunks)
               THEN [me EXCEPT !.calls = Append(@,
                                   Call("generateEmbedding", Len(me.embeddings)))]
               ELSE [me EXCEPT !.pc = "creatingDocument",
                               !.steps = Append(@, "createDocument"),
                               !.calls = Append(@, Call("createDocument", 0))]]
    /\ UNCHANGED <<config, caVars, ckVars, emVars, documents, chunkRows, queries>>

IngestEmbedThrowsGoesOn(r) ==
    /\ ingests[r].pc = "embedding"
    /\ ingests' = [ingests EXCEPT ![r] =
            [@ EXCEPT !.pc = "creatingDocument",
                      !.steps = Append(@, "createDocument"),
                      !.calls = Append(@, Call("createDocument", 0))]]
    /\ UNCHANGED <<config, caVars, ckVars, emVars, documents, chunkRows, queries>>

\* generateEmbeddings throws (the model load or one chunk's embedding failed)
IngestEmbedThrows(r) ==
    /\ ingests[r].pc = "embedding"
    /\ ingests' = [ingests EXCEPT ![r] =
            Fail(@, 500, "embed", "Embedding failed")]
    /\ UNCHANGED <<config, caVars, ckVars, emVars, documents, chunkRows, queries>>

\* createDocument returns the new row; insertChunks starts with chunk 0
IngestCreateDocumentReturns(r) ==
    /\ ingests[r].pc = "creatingDocument"
    /\ documents' = Append(documents, r)
    /\ ingests' = [ingests EXCEPT ![r] =
            [@ EXCEPT !.pc = "inserting", !.documentId = Len(documents) + 1,
                      !.i = 0, !.steps = Append(@, "insertChunks"),
                      !.calls = Append(@, Call("insertChunk", 0))]]
    /\ UNCHANGED <<config, caVars, ckVars, emVars, chunkRows, queries>>

\* createDocument throws Error('Database error: ...')
IngestCreateDocumentFails(r) ==
    /\ ingests[r].pc = "creatingDocument"
    /\ ingests' = [ingests EXCEPT ![r] =
            Fail(@, 500, "createDocument", "Database error")]
    /\ UNCHANGED <<config, caVars, ckVars, emVars, documents, chunkRows, queries>>

IngestInsertReturnsLastFirst(r) ==
    /\ ingests[r].pc = "inserting"
    /\ ingests[r].i < Len(ingests[r].chunks)
    /\ LET me == ingests[r]
           withEmbeddings == ChunksWithEmbeddings(me.chunks, me.embeddings)
       IN  /\ chunkRows' = Append(chunkRows,
                   ChunkRow(me.documentId, withEmbeddings[Len(me.chunks) - me.i],
                            Len(me.chunks) - me.i - 1))
           /\ ingests' = [ingests EXCEPT ![r] =
                   IF me.i + 1 < Len(me.chunks)
                   THEN [me EXCEPT !.i = @ + 1,
                                   !.calls = Append(@, Call("insertChunk", me.i + 1))]
                   ELSE [me EXCEPT !.i = @ + 1, !.pc = "responded",
                                   !.status = 201]]
    /\ UNCHANGED <<config, caVars, ckVars, emVars, documents, queries>>

\* insertChunks: the insert of chunks[i] succeeds; after the last chunk
\* insertChunks returns and the handler answers 201
IngestInsertReturns(r) ==
    /\ ingests[r].pc = "inserting"
    /\ ingests[r].i < Len(ingests[r].chunks)
    /\ LET me == ingests[r]
           withEmbeddings == ChunksWithEmbeddings(me.chunks, me.embeddings)
       IN  /\ chunkRows' = Append(chunkRows,
                   ChunkRow(me.documentId, withEmbeddings[me.i + 1], me.i))
           /\ ingests' = [ingests EXCEPT ![r] =
                   IF me.i + 1 < Len(me.chunks)
                   THEN [me EXCEPT !.i = @ + 1,
                                   !.calls = Append(@, Call("insertChunk", me.i + 1))]
                   ELSE [me EXCEPT !.i = @ + 1, !.pc = "responded",
                                   !.status = 201]]
    /\ UNCHANGED <<config, caVars, ckVars, emVars, documents, queries>>

IngestInsertFailsSkips(r) ==
    /\ ingests[r].pc = "inserting"
    /\ ingests[r].i < Len(ingests[r].chunks)
    /\ ingests' = [ingests EXCEPT ![r] =
            IF @.i + 1 < Len(@.chunks)
            THEN [@ EXCEPT !.i = @ + 1, !.failedChunk = ingests[r].i,
                           !.calls = Append(@, Call("insertChunk", ingests[r].i + 1))]
            ELSE [Fail(@, 500, "insertChunks", "Failed to insert chunk")
                     EXCEPT !.failedChunk = ingests[r].i]]
    /\ UNCHANGED <<config, caVars, ckVars, emVars, documents, chunkRows, queries>>

\* insertChunks: the insert of chunks[i] fails:
\* throw new Error(`Failed to insert chunk ${i}: ...`)
IngestInsertFails(r) ==
    /\ ingests[r].pc = "inserting"
    /\ ingests[r].i < Len(ingests[r].chunks)
    /\ ingests' = [ingests EXCEPT ![r] =
            [Fail(@, 500, "insertChunks", "Failed to insert chunk")
                EXCEPT !.failedChunk = ingests[r].i]]
    /\ UNCHANGED <<config, caVars, ckVars, emVars, documents, chunkRows, queries>>

NextIngest(r) ==
    \/ \E file \in {"none", "notPdf", "pdf"} : IngestReceive(r, file)
    \/ \E text \in ExtractTexts : IngestExtractReturns(r, text)
    \/ IngestExtractThrows(r)
    \/ \E vector \in ModelVectors : IngestEmbedReturns(r, vector)
    \/ IngestEmbedThrows(r)
    \/ IngestCreateDocumentReturns(r)
    \/ IngestCreateDocumentFails(r)
    \/ IngestInsertReturns(r)
    \/ IngestInsertFails(r)

(***************************************************************************)
(* Numbers.  A number that need not be whole (a similarity) is kept as the *)
(* whole number of its ten-thousandths; the vectors of the model make      *)
(* every quotient exact.                                                   *)
(***************************************************************************)
One == 100 * 100

Abs(x) == IF x < 0 THEN -x ELSE x

\* Math.sqrt on the squares the model meets
Sqrt(n) == CHOOSE r \in 0..n : r * r <= n /\ n < (r + 1) * (r + 1)

RECURSIVE SumTo(_, _)
SumTo(n, f) == IF n = 0 THEN 0 ELSE f[n] + SumTo(n - 1, f)

\* x.toFixed(digits) read back as a number, for digits in {1, 2}
ToFixed(x, digits) ==
    LET step == IF digits = 2 THEN 100 ELSE 1000
        rounded == ((Abs(x) + step \div 2) \div step) * step
    IN  IF x < 0 THEN -rounded ELSE rounded

\* the factor of "similarity * 100"
PercentFactor == 100

(***************************************************************************)
(* db/supabase.js: searchSimilar                                           *)
(***************************************************************************)
\* cosineSimilarity(a, b)
cosineSimilarity(a, b) ==
    IF Len(a) # Len(b) THEN 0
    ELSE LET dotProduct == SumTo(Len(a), [i \in 1..Len(a) |-> a[i] * b[i]])
             normA == SumTo(Len(a), [i \in 1..Len(a) |-> a[i] * a[i]])
             normB == SumTo(Len(b), [i \in 1..Len(b) |-> b[i] * b[i]])
         IN  IF normA = 0 \/ normB = 0 THEN 0
             ELSE (dotProduct * One) \div (Sqrt(normA) * Sqrt(normB))

CompareAscending(a, b) == a.similarity - b.similarity

\* the comparator of results.sort: (a, b) => b.similarity - a.similarity
Compare(a, b) == b.similarity - a.similarity

\* Array.prototype.sort is stable: an element goes behind every element that
\* the comparator does not put after it
RECURSIVE InsertSorted(_, _)
InsertSorted(sorted, x) ==
    IF Len(sorted) = 0 THEN <<x>>
    ELSE IF Compare(Head(sorted), x) <= 0
         THEN <<Head(sorted)>> \o InsertSorted(Tail(sorted), x)
         ELSE <<x>> \o sorted

RECURSIVE SortResults(_)
SortResults(results) ==
    IF Len(results) = 0 THEN <<>>
    ELSE InsertSorted(SortResults(SubSeq(results, 1, Len(results) - 1)),
                      results[Len(results)])

TopResultsAll(results, limit) == results

\* results.slice(0, limit)
TopResults(results, limit) == Slice(results, 0, limit)

\* the rows the select returns: every row with a non-null embedding, with
\* its id
FetchAllChunks(rows) ==
    LET ids == SelectSeq([k \in 1..Len(rows) |-> k],
                         LAMBDA k : Len(rows[k].embedding) > 0)
    IN  [n \in 1..Len(ids) |->
            [id |-> ids[n], document_id |-> rows[ids[n]].document_id,
             metadata |-> rows[ids[n]].metadata,
             embedding |-> rows[ids[n]].embedding]]

\* searchSimilar(queryEmbedding, limit) on the fetched rows
searchSimilar(allChunks, queryEmbedding, limit) ==
    IF Len(allChunks) = 0 THEN <<>>
    ELSE LET results ==
                 [k \in 1..Len(allChunks) |->
                     [id |-> allChunks[k].id,
                      document_id |-> allChunks[k].document_id,
                      metadata |-> allChunks[k].metadata,
                      similarity |->
                          cosineSimilarity(queryEmbedding, allChunks[k].embedding)
                              * PercentFactor]]
         IN  TopResults(SortResults(results), limit)

(***************************************************************************)
(* routes/query.js                                                         *)
(***************************************************************************)
\* req.body.question: absent, a number (not a string), or a string
QuestionInputs ==
    {[type |-> "undefined", text |-> <<>>], [type |-> "number", text |-> <<>>]}
    \cup {[type |-> "string", text |-> t] : t \in {<<SP>>, <<"a">>}}

\* req.body.topK: absent, or a whole number
TopKValues == {0, 1, 21, 100}

TopKInputs ==
    {[given |-> FALSE, value |-> 0]}
    \cup {[given |-> TRUE, value |-> v] : v \in TopKValues}

QuestionRejectedUnlessAbsent(question) == question.type = "undefined"

\* !question || typeof question !== 'string' || question.trim().length === 0
QuestionRejected(question) ==
    question.type # "string" \/ IsEmptyText(question.text)

ResultLimitUnbounded(topK, cfg) ==
    IF topK.given /\ topK.value > 0 THEN topK.value ELSE cfg.topK

\* topK && Number.isInteger(topK) && topK > 0 && topK <= 20 ? topK : config.rag.topK
ResultLimit(topK, cfg) ==
    IF topK.given /\ topK.value # 0 /\ topK.value > 0 /\ topK.value <= 20
    THEN topK.value
    ELSE cfg.topK

NoChunksFoundNever(similarChunks) == FALSE

\* !similarChunks || similarChunks.length === 0
NoChunksFound(similarChunks) == Len(similarChunks) = 0

\* a text is the sequence of its parts; the fallback answer has one part
FallbackAnswer ==
    <<"I could not find any relevant information in the knowledge base to answer your question.">>

(***************************************************************************)
(* services/llm.js: generateAnswer                                         *)
(***************************************************************************)
\* String.prototype.toLowerCase, on the letters of the model
ToLowerCase(s) ==
    [k \in 1..Len(s) |->
        CASE s[k] = "Q" -> "q" [] s[k] = "U" -> "u" [] s[k] = "I" -> "i"
          [] s[k] = "Z" -> "z" [] s[k] = "F" -> "f" [] OTHER -> s[k]]

\* s.includes(needle)
Includes(s, needle) ==
    \E k \in 0..(Len(s) - Len(needle)) : SubSeq(s, k + 1, k + Len(needle)) = needle

FlashcardWord == <<"f", "l", "a", "s", "h", "c", "a", "r", "d">>
QuizWord == <<"q", "u", "i", "z">>

InstructionBoth(question) ==
    LET lowerQ == ToLowerCase(question)
    IN  <<"answer from the context">>
        \o (IF Includes(lowerQ, FlashcardWord) THEN <<"flashcards JSON">> ELSE <<>>)
        \o (IF Includes(lowerQ, QuizWord) THEN <<"quiz JSON">> ELSE <<>>)

\* the instruction generateAnswer ends the user prompt with: the base
\* sentence and what the if / else if appends to it
Instruction(question) ==
    LET lowerQ == ToLowerCase(question)
        isFlashcard == Includes(lowerQ, FlashcardWord)
        isQuiz == Includes(lowerQ, QuizWord)
    IN  <<"answer from the context">>
        \o (IF isFlashcard THEN <<"flashcards JSON">>
            ELSE IF isQuiz THEN <<"quiz JSON">>
            ELSE <<>>)

\* the questions of SpecAnswer: up to MaxWords of these words, one after
\* the other
ModeWords == {QuizWord, <<"Q", "u", "I", "Z">>, FlashcardWord, <<"a">>, <<SP>>}

RECURSIVE WordsUpTo(_)
WordsUpTo(n) ==
    IF n = 0 THEN {<<>>}
    ELSE WordsUpTo(n - 1)
         \cup {s \o w : s \in WordsUpTo(n - 1), w \in ModeWords}

ModeQuestions == {[type |-> "string", text |-> t] : t \in WordsUpTo(MaxWords)}

(***************************************************************************)
(* The completion, and how the chat page renders an answer.  A completion  *)
(* is the sequence of its parts: prose, the opening and the closing code   *)
(* fence, a well-formed JSON object of either type, and a JSON object cut  *)
(* off before any closing brace.                                           *)
(***************************************************************************)
QuizObject == "{\"type\":\"quiz\",\"data\":[...]}"
FlashcardsObject == "{\"type\":\"flashcards\",\"data\":[...]}"
CutObject == "{\"type\":\"quiz\",\"data\":["
\* three backquotes and json, and three backquotes
OpenFence == "<fence>json"
CloseFence == "<fence>"

CompletionParts == {"prose", OpenFence, CloseFence, QuizObject, FlashcardsObject, CutObject}

Completions == UNION {[1..k -> CompletionParts] : k \in 1..MaxParts}

ProseCompletion == <<"prose">>

\* JSON.parse(s) returns an object (anything else throws, or has no type)
ParsesAsObject(s) == Len(s) = 1 /\ s[1] \in {QuizObject, FlashcardsObject}

\* the two replace calls and the trim: every opening fence is removed, and
\* the closing fence that ends the content
Sanitize(content) ==
    LET opened == SelectSeq(content, LAMBDA part : part # OpenFence)
    IN  IF Len(opened) > 0 /\ opened[Len(opened)] = CloseFence
        THEN SubSeq(opened, 1, Len(opened) - 1)
        ELSE opened

\* cleanContent.match(/(\{[\s\S]*\})/): from the first opening brace to the
\* last closing brace, if there is one behind it
ExtractObject(cleanContent) ==
    LET opens == {k \in 1..Len(cleanContent) :
                     cleanContent[k] \in {QuizObject, FlashcardsObject, CutObject}}
        closes == {k \in 1..Len(cleanContent) :
                      cleanContent[k] \in {QuizObject, FlashcardsObject}}
        first == CHOOSE k \in opens : \A j \in opens : k <= j
        last == CHOOSE k \in closes : \A j \in closes : j <= k
    IN  IF opens # {} /\ closes # {} /\ first <= last
        THEN SubSeq(cleanContent, first, last)
        ELSE cleanContent

\* what the page shows for an assistant message: a FlashcardDeck, a Quiz, or
\* (the catch) the content as markdown
RenderAs(content) ==
    LET cleanContent == ExtractObject(Sanitize(content))
    IN  IF ParsesAsObject(cleanContent) /\ cleanContent[1] = FlashcardsObject
        THEN "flashcards"
        ELSE IF ParsesAsObject(cleanContent) /\ cleanContent[1] = QuizObject
        THEN "quiz"
        ELSE "prose"

\* the similarity the response reports for a source
SourceSimilarity(chunk) == ToFixed(chunk.similarity * PercentFactor, 2)

\* the similarity generateAnswer writes into the context block
ContextSimilarity(chunk) == ToFixed(chunk.similarity * PercentFactor, 1)

\* similarChunks.map(chunk => ({chunkId, documentId, content, similarity, metadata}))
Sources(similarChunks) ==
    [k \in 1..Len(similarChunks) |->
        [chunkId |-> similarChunks[k].id,
         documentId |-> similarChunks[k].document_id,
         similarity |-> SourceSimilarity(similarChunks[k]),
         metadata |-> similarChunks[k].metadata]]

\* POST /query arrives: the question check, the result limit, then
\* generateEmbedding(question) is called
QueryReceive(q, question, topK) ==
    /\ queries[q].pc = "idle"
    /\ LET me == [queries[q] EXCEPT !.question = question, !.topK = topK]
       IN  queries' = [queries EXCEPT ![q] =
               IF QuestionRejected(question)
               THEN [me EXCEPT !.pc = "responded", !.status = 400,
                               !.error = "Question is required"]
               ELSE [me EXCEPT !.pc = "embedding",
                               !.resultLimit = ResultLimit(topK, config),
                               !.calls = Append(@, Call("generateEmbedding", 0))]]
    /\ UNCHANGED <<config, caVars, ckVars, emVars, documents, chunkRows, ingests>>

\* generateEmbedding returns; searchSimilar is called
QueryEmbedReturns(q, vector) ==
    /\ queries[q].pc = "embedding"
    /\ queries' = [queries EXCEPT ![q] =
            [@ EXCEPT !.pc = "searching", !.queryEmbedding = vector,
                      !.calls = Append(@, Call("searchSimilar", 0))]]
    /\ UNCHANGED <<config, caVars, ckVars, emVars, documents, chunkRows, ingests>>

\* generateEmbedding throws
QueryEmbedThrows(q) ==
    /\ queries[q].pc = "embedding"
    /\ queries' = [queries EXCEPT ![q] =
            [@ EXCEPT !.pc = "responded", !.status = 500,
                      !.error = "Embedding failed"]]
    /\ UNCHANGED <<config, caVars, ckVars, emVars, documents, chunkRows, ingests>>

\* the select of searchSimilar returns and searchSimilar ranks; the handler
\* answers with the fallback or calls generateAnswer
QuerySearchReturns(q) ==
    /\ queries[q].pc = "searching"
    /\ LET allChunks == FetchAllChunks(chunkRows)
           similarChunks ==
               searchSimilar(allChunks, queries[q].queryEmbedding,
                             queries[q].resultLimit)
           me == [queries[q] EXCEPT !.searched = TRUE,
                                    !.fetched = Len(allChunks),
                                    !.similarChunks = similarChunks]
       IN  queries' = [queries EXCEPT ![q] =
               IF NoChunksFound(similarChunks)
               THEN [me EXCEPT !.pc = "responded", !.status = 200,
                               !.response = [answer |-> FallbackAnswer,
                                             sources |-> <<>>,
                                             hasContext |-> FALSE]]
               ELSE [me EXCEPT !.pc = "generating", !.llmCalls = @ + 1,
                               !.instruction = Instruction(me.question.text),
                               !.calls = Append(@, Call("generateAnswer", 0)),
                               !.contextSimilarities =
                                   [k \in 1..Len(similarChunks) |->
                                       ContextSimilarity(similarChunks[k])]]]
    /\ UNCHANGED <<config, caVars, ckVars, emVars, documents, chunkRows, ingests>>

\* the select of searchSimilar fails: throw error
QuerySearchFails(q) ==
    /\ queries[q].pc = "searching"
    /\ queries' = [queries EXCEPT ![q] =
            [@ EXCEPT !.pc = "responded", !.status = 500,
                      !.error = "Database error"]]
    /\ UNCHANGED <<config, caVars, ckVars, emVars, documents, chunkRows, ingests>>

QueryAnswerReturnsParsed(q, completion) ==
    /\ queries[q].pc = "generating"
    /\ queries' = [queries EXCEPT ![q] =
            IF Len(@.instruction) > 1 /\ ~ParsesAsObject(ExtractObject(Sanitize(completion)))
            THEN [@ EXCEPT !.pc = "responded", !.status = 500,
                           !.error = "LLM generation failed"]
            ELSE [@ EXCEPT !.pc = "responded", !.status = 200,
                           !.response = [answer |-> ExtractObject(Sanitize(completion)),
                                         sources |-> Sources(queries[q].similarChunks),
                                         hasContext |-> TRUE]]]
    /\ UNCHANGED <<config, caVars, ckVars, emVars, documents, chunkRows, ingests>>

\* the completion arrives: generateAnswer returns its content as the
\* answer, and the handler answers with it and the sources
QueryAnswerReturns(q, completion) ==
    /\ queries[q].pc = "generating"
    /\ queries' = [queries EXCEPT ![q] =
            [@ EXCEPT !.pc = "responded", !.status = 200,
                      !.response = [answer |-> completion,
                                    sources |-> Sources(queries[q].similarChunks),
                                    hasContext |-> TRUE]]]
    /\ UNCHANGED <<config, caVars, ckVars, emVars, documents, chunkRows, ingests>>

QueryAnswerThrowsRetries(q) ==
    /\ queries[q].pc = "generating"
    /\ queries' = [queries EXCEPT ![q] =
            IF @.llmCalls < 2
            THEN [@ EXCEPT !.llmCalls = @ + 1,
                           !.calls = Append(@, Call("generateAnswer", 0))]
            ELSE [@ EXCEPT !.pc = "responded", !.status = 500,
                           !.error = "LLM generation failed"]]
    /\ UNCHANGED <<config, caVars, ckVars, emVars, documents, chunkRows, ingests>>

\* generateAnswer throws Error('LLM generation failed: ...')
QueryAnswerThrows(q) ==
    /\ queries[q].pc = "generating"
    /\ queries' = [queries EXCEPT ![q] =
            [@ EXCEPT !.pc = "responded", !.status = 500,
                      !.error = "LLM generation failed"]]
    /\ UNCHANGED <<config, caVars, ckVars, emVars, documents, chunkRows, ingests>>

\* the requests the handler is given, the vectors the embedding model
\* returns for the questions and the completions Groq returns
NextQueryWith(q, questions, topKs, vectors, completions) ==
    \/ \E question \in questions, topK \in topKs :
          QueryReceive(q, question, topK)
    \/ \E vector \in vectors : QueryEmbedReturns(q, vector)
    \/ QueryEmbedThrows(q)
    \/ QuerySearchReturns(q)
    \/ QuerySearchFails(q)
    \/ \E completion \in completions : QueryAnswerReturns(q, completion)
    \/ QueryAnswerThrows(q)

NextQuery(q) ==
    NextQueryWith(q, QuestionInputs, TopKInputs, ModelVectors, {ProseCompletion})

(***************************************************************************)
(* SpecAnswer: the chat page asks questions of a store that holds one      *)
(* document of one chunk, and renders the answers.                         *)
(***************************************************************************)
\* the page appends the answer (or, on an error, the error message) as an
\* assistant message and renders it
ClientRender(q) ==
    /\ queries[q].pc = "responded"
    /\ queries' = [queries EXCEPT ![q] =
            [@ EXCEPT !.pc = "rendered",
                      !.rendered = RenderAs(IF queries[q].status = 200
                                            THEN queries[q].response.answer
                                            ELSE <<queries[q].error>>)]]
    /\ UNCHANGED <<config, caVars, ckVars, emVars, documents, chunkRows, ingests>>

\* POST /ingest has stored a document of the one chunk "a" for request i1
IngestedOne ==
    [NewIngest EXCEPT
        !.pc = "responded", !.file = "pdf",
        !.chunks = <<[content |-> <<"a">>, index |-> 0, startChar |-> 0, endChar |-> 1]>>,
        !.embeddings = <<(<<5, 0>>)>>, !.documentId = 1, !.i = 1,
        !.steps = IngestOrder,
        !.calls = <<Call("extractText", 0), Call("generateEmbedding", 0),
                    Call("createDocument", 0), Call("insertChunk", 0)>>,
        !.status = 201]

InitAnswer ==
    /\ config = RagConfig(EnvChunkSize, EnvChunkOverlap, 0)
    /\ AgentIdle
    /\ ChunkIdle
    /\ EmbedIdle
    /\ documents = <<"i1">>
    /\ chunkRows = <<ChunkRow(1, [content |-> <<"a">>, embedding |-> <<5, 0>>], 0)>>
    /\ ingests = [r \in Ingests |-> IF r = "i1" THEN IngestedOne ELSE NewIngest]
    /\ queries = [q \in Queries |-> NewQuery]

NextAnswer ==
    \E q \in Queries :
        \/ NextQueryWith(q, ModeQuestions, {[given |-> FALSE, value |-> 0]},
                         {<<5, 0>>}, Completions)
        \/ ClientRender(q)

SpecAnswer == InitAnswer /\ [][NextAnswer]_vars

Init ==
    /\ config = RagConfig(EnvChunkSize, EnvChunkOverlap, 0)
    /\ AgentIdle
    /\ ChunkIdle
    /\ EmbedIdle
    /\ RequestsIdle

Next ==
    \/ \E r \in Ingests : NextIngest(r)
    \/ \E q \in Queries : NextQuery(q)

Spec == Init /\ [][Next]_vars

(***************************************************************************)
(* Claims on the chunk store, ingestion and retrieval                      *)
(***************************************************************************)
\* the rows of document d, in insertion order
RowsOf(d) == SelectSeq(chunkRows, LAMBDA row : row.document_id = d)

\* the chunkIndex values stored for document d
IndicesOf(d) == {RowsOf(d)[k].metadata.chunkIndex : k \in 1..Len(RowsOf(d))}

\* C3: in every state of the store the chunkIndex values of each document
\* are exactly 0..k-1 for the k rows it has (contiguous from 0, no gap, no
\* duplicate), and no stored chunk has empty content.
C3_IndicesContiguous ==
    /\ \A d \in 1..Len(documents) : IndicesOf(d) = 0..(Len(RowsOf(d)) - 1)
    /\ \A k \in 1..Len(chunkRows) :
          /\ chunkRows[k].document_id \in 1..Len(documents)
          /\ Len(Trim(chunkRows[k].content)) > 0

\* two ingestions ran concurrently, their rows interleaved; one of them
\* failed part-way and the other completed
C3_Witness ==
    \E r1, r2 \in Ingests :
        /\ ingests[r1].status = 201 /\ Len(RowsOf(ingests[r1].documentId)) = 2
        /\ ingests[r2].failedChunk = 1
        /\ Len(chunkRows) = 3
        /\ chunkRows[1].document_id # chunkRows[2].document_id
        /\ chunkRows[2].document_id # chunkRows[3].document_id

\* C4: when the insert of chunk i fails, insertChunks aborts with an error
\* that names i, no chunk of the document with an index above i is ever
\* inserted, chunks 0..i-1 stay stored, and so does the Document record.
C4_PartialFailureKept ==
    \A r \in Ingests :
        ingests[r].failedChunk # -1 =>
            /\ ingests[r].pc = "responded"
            /\ ingests[r].status >= 400
            /\ ingests[r].failedAt = "insertChunks"
            /\ ingests[r].documentId \in 1..Len(documents)
            /\ documents[ingests[r].documentId] = r
            /\ IndicesOf(ingests[r].documentId) = 0..(ingests[r].failedChunk - 1)

\* an ingestion failed at its second chunk, and the store went on being
\* written by another ingestion afterwards
C4_Witness ==
    \E r1, r2 \in Ingests :
        /\ ingests[r1].failedChunk = 1
        /\ Len(ingests[r1].chunks) = 2
        /\ ingests[r2].documentId > ingests[r1].documentId
        /\ ingests[r2].status = 201

IsPrefix(s, t) == Len(s) <= Len(t) /\ s = SubSeq(t, 1, Len(s))

\* C5: the steps of an ingest request start in the order validate, extract,
\* chunk, embed, createDocument, insertChunks; a failed request has started
\* no step after the one that failed; and a Document record exists only for
\* a request all of whose chunks were embedded.
C5_StepsInOrder ==
    /\ \A r \in Ingests :
          /\ IsPrefix(ingests[r].steps, IngestOrder)
          /\ ingests[r].status >= 400 =>
                /\ ingests[r].pc = "responded"
                /\ ingests[r].steps[Len(ingests[r].steps)] = ingests[r].failedAt
          /\ (\E k \in 1..Len(ingests[r].steps) :
                  ingests[r].steps[k] = "createDocument") =>
                /\ Len(ingests[r].chunks) > 0
                /\ Len(ingests[r].embeddings) = Len(ingests[r].chunks)
    /\ \A d \in 1..Len(documents) :
          /\ ingests[documents[d]].documentId = d
          /\ Len(ingests[documents[d]].embeddings) = Len(ingests[documents[d]].chunks)

\* one request failed while embedding its second chunk and has no Document;
\* another went through every step
C5_Witness ==
    \E r1, r2 \in Ingests :
        /\ ingests[r1].failedAt = "embed"
        /\ Len(ingests[r1].embeddings) = 1
        /\ Len(ingests[r1].chunks) = 2
        /\ ingests[r2].status = 201
        /\ ingests[r2].steps = IngestOrder
        /\ Len(documents) = 1

\* C6: a query whose fetch finds no chunk is answered 200 with
\* hasContext = false, no sources and the fixed fallback text, and
\* generateAnswer is never called for it.
C6_EmptyCorpusFallback ==
    \A q \in Queries :
        (queries[q].searched /\ queries[q].fetched = 0) =>
            /\ queries[q].pc = "responded"
            /\ queries[q].status = 200
            /\ queries[q].response =
                  [answer |-> FallbackAnswer, sources |-> <<>>, hasContext |-> FALSE]
            /\ queries[q].llmCalls = 0

\* a query searched while a Document existed but none of its chunks yet
C6_Witness ==
    \E q \in Queries :
        /\ queries[q].searched
        /\ queries[q].fetched = 0
        /\ Len(documents) > 0
        /\ Len(chunkRows) > 0

\* C7: along every result of searchSimilar the similarities do not
\* increase, and chunks of equal similarity keep the order of the fetch
\* (ascending row id).
C7_RankingOrder ==
    \A q \in Queries :
        \A i, j \in 1..Len(queries[q].similarChunks) :
            i < j =>
                /\ queries[q].similarChunks[i].similarity
                      >= queries[q].similarChunks[j].similarity
                /\ queries[q].similarChunks[i].similarity
                      = queries[q].similarChunks[j].similarity
                   => queries[q].similarChunks[i].id < queries[q].similarChunks[j].id

\* a result of three chunks in which the sort moved a chunk past another
\* and two chunks tie
C7_Witness ==
    \E q \in Queries :
        /\ Len(queries[q].similarChunks) = 3
        /\ queries[q].similarChunks[1].similarity = queries[q].similarChunks[2].similarity
        /\ queries[q].similarChunks[2].similarity > queries[q].similarChunks[3].similarity
        /\ queries[q].similarChunks[3].id < queries[q].similarChunks[2].id

\* C8: searchSimilar returns exactly min(limit, number of chunks fetched)
\* results, all of them fetched rows, and with no chunk in the store the
\* empty sequence, without an error.
C8_ResultCount ==
    \A q \in Queries :
        queries[q].searched =>
            /\ Len(queries[q].similarChunks)
                  = Min(queries[q].resultLimit, queries[q].fetched)
            /\ queries[q].fetched <= Len(chunkRows)
            /\ \A k \in 1..Len(queries[q].similarChunks) :
                  queries[q].similarChunks[k].id \in 1..queries[q].fetched
            /\ queries[q].fetched = 0 =>
                  queries[q].similarChunks = <<>> /\ queries[q].status = 200

\* a search cut three fetched chunks down to the limit of one
C8_Witness ==
    \E q \in Queries :
        /\ queries[q].searched
        /\ queries[q].fetched = 3
        /\ queries[q].resultLimit = 1
        /\ Len(queries[q].similarChunks) = 1

\* the cosine similarity of the query to stored row id, as a percentage
PercentSimilarity(q, id) ==
    cosineSimilarity(queries[q].queryEmbedding, chunkRows[id].embedding) * 100

\* C9: every similarity reported for a source, and every similarity written
\* into the context block of the prompt, lies in [0, 100] and is the chunk's
\* cosine similarity to the query as a percentage.
C9_SimilarityIsPercentage ==
    \A q \in Queries :
        /\ \A k \in 1..Len(queries[q].response.sources) :
              LET src == queries[q].response.sources[k]
              IN  /\ 0 <= src.similarity /\ src.similarity <= 100 * One
                  /\ src.similarity = PercentSimilarity(q, src.chunkId)
        /\ \A k \in 1..Len(queries[q].contextSimilarities) :
              /\ 0 <= queries[q].contextSimilarities[k]
              /\ queries[q].contextSimilarities[k] <= 100 * One
              /\ queries[q].contextSimilarities[k]
                    = PercentSimilarity(q, queries[q].similarChunks[k].id)

\* a question the handler accepts
QuestionAccepted(q) == queries[q].pc # "idle" /\ ~QuestionRejected(queries[q].question)

TopKOutOfRange(q) == queries[q].topK.given /\ queries[q].topK.value \notin 1..20

\* C10 as stated: a query whose topK is outside [1,20] is rejected (400), and
\* a query with topK = 100 against three chunks returns three results.
C10_OutOfRangeRejected ==
    \A q \in Queries :
        /\ (queries[q].pc # "idle" /\ TopKOutOfRange(q)) =>
              queries[q].pc = "responded" /\ queries[q].status = 400
        /\ (queries[q].searched /\ queries[q].topK.value = 100
                /\ queries[q].fetched = 3) =>
              Len(queries[q].similarChunks) = 3

\* C10 as amended: a query whose topK is outside [1,20] is not rejected for
\* it; the handler searches with config.rag.topK in its place (a topK within
\* [1,20] is used as given), and so a query with topK = 100 against three
\* chunks returns three results under the default limit of 5.
C10_OutOfRangeUsesDefault ==
    \A q \in Queries :
        QuestionAccepted(q) =>
            /\ queries[q].status # 400
            /\ TopKOutOfRange(q) => queries[q].resultLimit = config.topK
            /\ (queries[q].topK.given /\ ~TopKOutOfRange(q)) =>
                  queries[q].resultLimit = queries[q].topK.value
            /\ (queries[q].searched /\ queries[q].topK.value = 100
                    /\ queries[q].fetched = 3 /\ config.topK = DefaultTopK) =>
                  Len(queries[q].similarChunks) = 3

\* topK = 100 was answered with the three chunks of the corpus
C10_Witness ==
    \E q \in Queries :
        /\ queries[q].topK = [given |-> TRUE, value |-> 100]
        /\ queries[q].fetched = 3
        /\ queries[q].status = 200
        /\ Len(queries[q].response.sources) = 3

(***************************************************************************)
(* Claims on validation and on the calls a request makes                   *)
(***************************************************************************)
\* a question that is missing, not a string, empty or whitespace-only
InvalidQuestion(question) ==
    \/ question.type # "string"
    \/ \A k \in 1..Len(question.text) : IsWhitespace(question.text[k])

\* C11: a query whose question is missing, not a string, empty or
\* whitespace-only is answered 400 having made no embedding, fetch or LLM
\* call; an ingest request with no file or with a file that does not start
\* as a PDF is answered 400 having made no extraction, embedding or storage
\* call.
C11_RejectedBeforeCalls ==
    /\ \A q \in Queries :
          (queries[q].pc # "idle" /\ InvalidQuestion(queries[q].question)) =>
              /\ queries[q].pc = "responded"
              /\ queries[q].status = 400
              /\ queries[q].calls = <<>>
              /\ ~queries[q].searched
              /\ queries[q].llmCalls = 0
    /\ \A r \in Ingests :
          (ingests[r].pc # "idle" /\ ingests[r].file \in {"none", "notPdf"}) =>
              /\ ingests[r].pc = "responded"
              /\ ingests[r].status = 400
              /\ ingests[r].calls = <<>>
              /\ ingests[r].steps = <<"validate">>
              /\ ingests[r].documentId = 0
              /\ \A d \in 1..Len(documents) : documents[d] # r

\* a whitespace-only question, a question that is not a string, an upload
\* without a file and one that is not a PDF have all been answered
C11_Witness ==
    /\ \E r1, r2 \in Ingests :
          /\ ingests[r1].file = "none" /\ ingests[r1].status = 400
          /\ ingests[r2].file = "notPdf" /\ ingests[r2].status = 400
    /\ \E q \in Queries :
          /\ queries[q].question \in
                {[type |-> "string", text |-> <<SP>>], [type |-> "number", text |-> <<>>]}
          /\ queries[q].status = 400

\* no call occurs twice in a request's calls
NoRepeatedCall(calls) ==
    \A i, j \in 1..Len(calls) : calls[i] = calls[j] => i = j

\* a step of a request either answers it or makes exactly one call, one it
\* has not made before; an answered request does nothing more
StepMakesNewCall(before, after) ==
    after # before =>
        /\ before.pc # "responded"
        /\ after.pc # "responded" =>
              /\ Len(after.calls) = Len(before.calls) + 1
              /\ SubSeq(after.calls, 1, Len(before.calls)) = before.calls
              /\ \A k \in 1..Len(before.calls) :
                    before.calls[k] # after.calls[Len(after.calls)]
        /\ after.pc = "responded" => after.calls = before.calls

C20_State ==
    /\ \A r \in Ingests :
          /\ NoRepeatedCall(ingests[r].calls)
          /\ ingests[r].error # "none" =>
                ingests[r].pc = "responded" /\ ingests[r].status >= 400
    /\ \A q \in Queries :
          /\ NoRepeatedCall(queries[q].calls)
          /\ queries[q].llmCalls <= 1
          /\ queries[q].error # "none" =>
                queries[q].pc = "responded" /\ queries[q].status >= 400

C20_Step ==
    /\ \A r \in Ingests : StepMakesNewCall(ingests[r], ingests'[r])
    /\ \A q \in Queries : StepMakesNewCall(queries[q], queries'[q])

\* C20: within a request no call is made twice (the question embedding, the
\* fetch, the completion, the document creation, and the embedding and the
\* insertion of each chunk); every step of a request either answers it or
\* makes one call it has not made before; and a request that met a failure
\* has been answered with an error and does nothing more.
C20_NoRetry == []C20_State /\ [][C20_Step]_vars

\* a query failed at the completion after one call of each kind, and an
\* ingestion failed at the embedding of its second chunk
C20_Witness ==
    /\ \E q \in Queries :
          /\ queries[q].error = "LLM generation failed"
          /\ queries[q].calls = <<Call("generateEmbedding", 0),
                                  Call("searchSimilar", 0),
                                  Call("generateAnswer", 0)>>
    /\ \E r \in Ingests :
          /\ ingests[r].failedAt = "embed"
          /\ ingests[r].calls = <<Call("extractText", 0),
                                  Call("generateEmbedding", 0),
                                  Call("generateEmbedding", 1)>>

(***************************************************************************)
(* Claims on the output mode and on the rendering of the answer            *)
(***************************************************************************)
\* text holds word, whatever the case of its letters
ContainsIgnoringCase(text, word) ==
    \E k \in 0..(Len(text) - Len(word)) :
        \A j \in 1..Len(word) : ToLowerCase(<<text[k + j]>>) = <<word[j]>>

\* generateAnswer has been called for q
AnswerCalled(q) == queries[q].llmCalls > 0

HasPart(instruction, part) == \E k \in 1..Len(instruction) : instruction[k] = part

\* C14 as stated: a question containing "quiz" gets the quiz instruction,
\* one containing "flashcard" gets the flashcards instruction, one containing
\* neither gets neither, and the two are never both appended.
C14_ModeByKeyword ==
    \A q \in Queries :
        AnswerCalled(q) =>
            LET text == queries[q].question.text
                instruction == queries[q].instruction
            IN  /\ ContainsIgnoringCase(text, QuizWord) <=> HasPart(instruction, "quiz JSON")
                /\ ContainsIgnoringCase(text, FlashcardWord)
                      <=> HasPart(instruction, "flashcards JSON")
                /\ ~(HasPart(instruction, "quiz JSON")
                       /\ HasPart(instruction, "flashcards JSON"))

\* C14 as amended: the instruction is the base sentence followed by exactly
\* one of: the flashcards instruction when the question contains
\* "flashcard" (whether or not it also contains "quiz"), the quiz
\* instruction when it contains "quiz" and not "flashcard", nothing when it
\* contains neither; the case of the letters does not matter.
C14_FlashcardBeforeQuiz ==
    \A q \in Queries :
        AnswerCalled(q) =>
            LET text == queries[q].question.text
            IN  queries[q].instruction =
                    IF ContainsIgnoringCase(text, FlashcardWord)
                    THEN <<"answer from the context", "flashcards JSON">>
                    ELSE IF ContainsIgnoringCase(text, QuizWord)
                    THEN <<"answer from the context", "quiz JSON">>
                    ELSE <<"answer from the context">>

\* a question with both words, in capitals, was given the flashcards
\* instruction
C14_Witness ==
    \E q \in Queries :
        /\ AnswerCalled(q)
        /\ queries[q].question.text = <<"Q", "u", "I", "Z">> \o FlashcardWord
        /\ queries[q].instruction = <<"answer from the context", "flashcards JSON">>

\* the question asked for a quiz or for flashcards
StructuredMode(q) == AnswerCalled(q) /\ Len(queries[q].instruction) > 1

\* the completion q was answered with, once it was
CompletionOf(q) == queries[q].response.answer

HoldsOneObject(completion, object) ==
    \E k \in 1..Len(completion) :
        /\ completion[k] = object
        /\ \A j \in 1..Len(completion) :
              j # k => completion[j] \notin {QuizObject, FlashcardsObject}
        /\ \A j \in 1..(k - 1) : completion[j] # CutObject

ExtractionFailed(r) ==
    /\ ingests[r].pc = "responded"
    /\ ingests[r].failedAt = "extract"

\* C21: every extraction failure of an ingestion (extractText throwing on a
\* malformed document, as well as extraction yielding no text) is answered
\* with the user-error status 422, never with an unclassified 500, and the
\* ingestion has stored nothing (no document, no chunk).
C21_ExtractionFailureIsUserError ==
    \A r \in Ingests :
        ExtractionFailed(r) =>
            /\ ingests[r].status = 422
            /\ ingests[r].documentId = 0
            /\ \A d \in 1..Len(documents) : documents[d] # r

(***************************************************************************)
(* Calendar agent: tasks and their sync to Google (taskManager.js).  A     *)
(* task's id is its position in the table, an event's id its position in   *)
(* the calendar; 0 stands for null.  Agent logs never throw (createLog     *)
(* returns null on an error) and are left out.                             *)
(***************************************************************************)
Titles == {"", "t"}
\* taskData.deadline: 0 when missing, else the instant
Deadlines == {0, 1, 2}

\* the row tasksDb.createTask inserts
TaskRecord(title, description, deadline) ==
    [title |-> title, description |-> description, deadline |-> deadline,
     status |-> "pending", google_calendar_event_id |-> 0, google_task_id |-> 0]

\* ids ordered by deadline ascending (rows of one deadline in table order)
RECURSIVE SortByDeadline(_)
SortByDeadline(ids) ==
    IF Len(ids) <= 1 THEN ids
    ELSE LET rest == SortByDeadline(Tail(ids))
             before == SelectSeq(rest, LAMBDA t : tasks[t].deadline < tasks[Head(ids)].deadline)
             after == SelectSeq(rest, LAMBDA t : tasks[t].deadline >= tasks[Head(ids)].deadline)
         IN  before \o <<Head(ids)>> \o after

\* tasksDb.getUnsyncedTasks: the rows without a calendar event id that are
\* not cancelled, by deadline
getUnsyncedTasks ==
    SortByDeadline(SelectSeq([t \in 1..Len(tasks) |-> t],
        LAMBDA t : /\ tasks[t].google_calendar_event_id = 0
                   /\ tasks[t].status # "cancelled"))

\* syncTaskToGoogle(userId, task) is called and runs to its await of
\* googleCalendar.createEvent
StartSync(me, t) ==
    [me EXCEPT !.task = t, !.errors = <<>>, !.created = 0, !.pc = "createEvent",
               !.calls = Append(@, Call("googleCalendar.createEvent", t))]

\* syncTaskToGoogle returns its result: createTask returns the task;
\* syncAllTasks counts the task and goes on with the next one
SyncTaskReturns(me) ==
    IF me.kind = "createTask"
    THEN [me EXCEPT !.pc = "done"]
    ELSE LET ok == Len(me.errors) = 0
             counted == [me EXCEPT !.synced = IF ok THEN @ + 1 ELSE @,
                                   !.failed = IF ok THEN @ ELSE @ + 1,
                                   !.results = Append(@, [taskId |-> me.task,
                                                          success |-> ok,
                                                          errors |-> me.errors])]
         IN  IF me.i < Len(me.unsynced)
             THEN StartSync([counted EXCEPT !.i = @ + 1], me.unsynced[me.i + 1])
             ELSE [counted EXCEPT !.pc = "done"]

\* the calendar part of syncTaskToGoogle is over
AfterCalendar(me) ==
    IF me.syncToTasks
    THEN [me EXCEPT !.pc = "createGoogleTask", !.created = 0,
                    !.calls = Append(@, Call("googleTasks.createTask", me.task))]
    ELSE SyncTaskReturns(me)

\* the step of syncTaskToGoogle that follows the one at pc
AfterTarget(me) ==
    IF me.pc \in {"createEvent", "updateEventId"}
    THEN AfterCalendar(me) ELSE SyncTaskReturns(me)

\* applyStudyPlan from session `session` of day `day` of its schedule on:
\* createTask is called for the next session there is (title: the day's
\* topic, deadline: the day), and after the last day updatePlanStatus
RECURSIVE ApplyNext(_, _, _)
ApplyNext(me, day, session) ==
    IF day > Len(me.schedule)
    THEN [me EXCEPT !.pc = "updatingStatus", !.day = day, !.session = 0,
                    !.calls = Append(@, Call("studyPlansDb.updatePlanStatus", me.plan))]
    ELSE IF session > me.schedule[day].sessions
    THEN ApplyNext(me, day + 1, 1)
    ELSE [me EXCEPT !.pc = "inserting", !.day = day, !.session = session,
                    !.title = "t", !.deadline = me.schedule[day].day,
                    !.calls = Append(@, Call("tasksDb.createTask", 0))]

\* taskManager.createTask(userId, taskData, {syncToGoogle}) is called: the
\* checks of the title and the deadline, then tasksDb.createTask
CreateTaskCall(p, title, deadline, syncToGoogle) ==
    /\ procs[p].pc = "idle"
    /\ LET me == [procs[p] EXCEPT !.kind = "createTask", !.title = title,
                                  !.deadline = deadline,
                                  !.syncToGoogle = syncToGoogle]
       IN  procs' = [procs EXCEPT ![p] =
               IF title = ""
               THEN [me EXCEPT !.pc = "failed", !.error = "Task title is required"]
               ELSE IF deadline = 0
               THEN [me EXCEPT !.pc = "failed", !.error = "Task deadline is required"]
               ELSE [me EXCEPT !.pc = "inserting",
                               !.calls = Append(@, Call("tasksDb.createTask", 0))]]
    /\ UNCHANGED <<config, ckVars, emVars, rqVars, tasks, events, gtasks,
                   studyPlans, integration, tokenCalls>>

\* the insert into tasks succeeds and createTask goes on
TaskInsertReturns(p) ==
    LET me == procs[p]
        id == Len(tasks) + 1
    IN  /\ me.pc = "inserting"
        /\ tasks' = Append(tasks, TaskRecord(me.title, me.plan, me.deadline))
        /\ procs' = [procs EXCEPT ![p] =
               IF me.kind = "applyStudyPlan"
               THEN ApplyNext([me EXCEPT !.tasksCreated = @ + 1],
                              me.day, me.session + 1)
               ELSE IF me.syncToGoogle THEN StartSync(me, id)
               ELSE [me EXCEPT !.pc = "done", !.task = id]]
        /\ UNCHANGED <<config, ckVars, emVars, rqVars, events, gtasks,
                       studyPlans, integration, tokenCalls>>

TaskInsertFailsSyncs(p) ==
    /\ procs[p].pc = "inserting"
    /\ procs' = [procs EXCEPT ![p] =
            IF @.kind = "applyStudyPlan"
            THEN ApplyNext([@ EXCEPT !.dayErrors = Append(@, procs[p].day)],
                           @.day + 1, 1)
            ELSE IF @.syncToGoogle THEN StartSync(@, Len(tasks) + 1)
            ELSE [@ EXCEPT !.pc = "failed", !.error = "Database error"]]
    /\ UNCHANGED <<config, ckVars, emVars, rqVars, tasks, events, gtasks,
                   studyPlans, integration, tokenCalls>>

\* the insert into tasks fails: tasksDb.createTask throws, and so does
\* createTask; applyStudyPlan catches the error as the error of the day and
\* goes on with the next day
TaskInsertFails(p) ==
    /\ procs[p].pc = "inserting"
    /\ procs' = [procs EXCEPT ![p] =
            IF @.kind = "applyStudyPlan"
            THEN ApplyNext([@ EXCEPT !.dayErrors = Append(@, procs[p].day)],
                           @.day + 1, 1)
            ELSE [@ EXCEPT !.pc = "failed", !.error = "Database error"]]
    /\ UNCHANGED <<config, ckVars, emVars, rqVars, tasks, events, gtasks,
                   studyPlans, integration, tokenCalls>>

\* calendar.events.insert / tasksClient.tasks.insert succeeds: the event
\* (the Google task) exists, and updateTaskSyncInfo is called with its id
GoogleInsertReturns(p) ==
    LET me == procs[p]
    IN  /\ me.pc \in {"createEvent", "createGoogleTask"}
        /\ IF me.pc = "createEvent"
           THEN /\ events' = Append(events, me.task)
                /\ procs' = [procs EXCEPT ![p] =
                       [me EXCEPT !.pc = "updateEventId",
                                  !.created = Len(events) + 1,
                                  !.calls = Append(@,
                                      Call("tasksDb.updateTaskSyncInfo", me.task))]]
                /\ UNCHANGED gtasks
           ELSE /\ gtasks' = Append(gtasks, me.task)
                /\ procs' = [procs EXCEPT ![p] =
                       [me EXCEPT !.pc = "updateGoogleTaskId",
                                  !.created = Len(gtasks) + 1,
                                  !.calls = Append(@,
                                      Call("tasksDb.updateTaskSyncInfo", me.task))]]
                /\ UNCHANGED events
        /\ UNCHANGED <<config, ckVars, emVars, rqVars, tasks, studyPlans,
                       integration, tokenCalls>>

GoogleInsertFailsAborts(p) ==
    /\ procs[p].pc \in {"createEvent", "createGoogleTask"}
    /\ procs' = [procs EXCEPT ![p] =
            [@ EXCEPT !.pc = "failed", !.error = "Google API error"]]
    /\ UNCHANGED <<config, ckVars, emVars, rqVars, tasks, events, gtasks,
                   studyPlans, integration, tokenCalls>>

\* getCalendarClient or the insert throws: createEvent (createTask of
\* googleTasks.js) catches it and returns null
GoogleInsertFails(p) ==
    LET me == procs[p]
        failed == [me EXCEPT !.errors = Append(@,
                       IF me.pc = "createEvent"
                       THEN "Failed to sync to Google Calendar"
                       ELSE "Failed to sync to Google Tasks")]
    IN  /\ me.pc \in {"createEvent", "createGoogleTask"}
        /\ procs' = [procs EXCEPT ![p] = AfterTarget(failed)]
        /\ UNCHANGED <<config, ckVars, emVars, rqVars, tasks, events, gtasks,
                       studyPlans, integration, tokenCalls>>

\* updateTaskSyncInfo succeeds: the row holds the id
SyncInfoUpdateReturns(p) ==
    LET me == procs[p]
    IN  /\ me.pc \in {"updateEventId", "updateGoogleTaskId"}
        /\ tasks' = IF me.pc = "updateEventId"
                    THEN [tasks EXCEPT ![me.task].google_calendar_event_id = me.created]
                    ELSE [tasks EXCEPT ![me.task].google_task_id = me.created]
        /\ procs' = [procs EXCEPT ![p] = AfterTarget(me)]
        /\ UNCHANGED <<config, ckVars, emVars, rqVars, events, gtasks,
                       studyPlans, integration, tokenCalls>>

\* updateTaskSyncInfo throws: syncTaskToGoogle catches it as an error of the
\* target
SyncInfoUpdateFails(p) ==
    LET me == procs[p]
        failed == [me EXCEPT !.errors = Append(@,
                       IF me.pc = "updateEventId"
                       THEN "Calendar: Database error"
                       ELSE "Tasks: Database error")]
    IN  /\ me.pc \in {"updateEventId", "updateGoogleTaskId"}
        /\ procs' = [procs EXCEPT ![p] = AfterTarget(failed)]
        /\ UNCHANGED <<config, ckVars, emVars, rqVars, tasks, events, gtasks,
                       studyPlans, integration, tokenCalls>>

\* syncAllTasks(userId, {syncToTasks}) is called and awaits getUnsyncedTasks
SyncAllCall(p, syncToTasks) ==
    /\ procs[p].pc = "idle"
    /\ procs' = [procs EXCEPT ![p] =
            [@ EXCEPT !.kind = "syncAllTasks", !.syncToTasks = syncToTasks,
                      !.pc = "fetching",
                      !.calls = Append(@, Call("tasksDb.getUnsyncedTasks", 0))]]
    /\ UNCHANGED <<config, ckVars, emVars, rqVars, tasks, events, gtasks,
                   studyPlans, integration, tokenCalls>>

\* getUnsyncedTasks returns: nothing to sync, or the loop starts
SyncFetchReturns(p) ==
    LET me == [procs[p] EXCEPT !.unsynced = getUnsyncedTasks]
    IN  /\ procs[p].pc = "fetching"
        /\ procs' = [procs EXCEPT ![p] =
               IF Len(me.unsynced) = 0
               THEN [me EXCEPT !.pc = "done"]
               ELSE StartSync([me EXCEPT !.i = 1], me.unsynced[1])]
        /\ UNCHANGED <<config, ckVars, emVars, rqVars, tasks, events, gtasks,
                       studyPlans, integration, tokenCalls>>

\* getUnsyncedTasks throws, and so does syncAllTasks
SyncFetchFails(p) ==
    /\ procs[p].pc = "fetching"
    /\ procs' = [procs EXCEPT ![p] =
            [@ EXCEPT !.pc = "failed", !.error = "Database error"]]
    /\ UNCHANGED <<config, ckVars, emVars, rqVars, tasks, events, gtasks,
                   studyPlans, integration, tokenCalls>>

InitSync ==
    /\ config = RagConfig(0, 0, 0)
    /\ ChunkIdle
    /\ EmbedIdle
    /\ RequestsIdle
    /\ AgentIdle

NextSync ==
    \E p \in Procs :
        \/ \E title \in Titles, deadline \in Deadlines, syncToGoogle \in BOOLEAN :
              CreateTaskCall(p, title, deadline, syncToGoogle)
        \/ TaskInsertReturns(p)
        \/ TaskInsertFails(p)
        \/ GoogleInsertReturns(p)
        \/ GoogleInsertFails(p)
        \/ SyncInfoUpdateReturns(p)
        \/ SyncInfoUpdateFails(p)
        \/ \E syncToTasks \in BOOLEAN : SyncAllCall(p, syncToTasks)
        \/ SyncFetchReturns(p)
        \/ SyncFetchFails(p)

SpecSync == InitSync /\ [][NextSync]_vars

\* a Google call made by a call into taskManager
GoogleCall(call) == call.op \in {"googleCalendar.createEvent", "googleTasks.createTask"}

StoredTask(t) == t \in 1..Len(tasks)

\* C22: in createTask (with or without syncToGoogle) and in syncAllTasks, a
\* Google Calendar event or Google Task is created for a task only after the
\* task's row has been stored in the tasks table (rows are never removed, so
\* a row stored in the state that follows the call was stored when the call
\* was made); a createTask whose database insert failed makes no Google call.
C22_StoredBeforeSynced ==
    /\ \A k \in 1..Len(events) : StoredTask(events[k])
    /\ \A k \in 1..Len(gtasks) : StoredTask(gtasks[k])
    /\ \A p \in Procs :
          /\ \A k \in 1..Len(procs[p].calls) :
                GoogleCall(procs[p].calls[k]) => StoredTask(procs[p].calls[k].arg)
          /\ procs[p].kind = "createTask" /\ procs[p].pc = "failed" =>
                \A k \in 1..Len(procs[p].calls) : ~GoogleCall(procs[p].calls[k])

\* a createTask with syncToGoogle has its event, a syncAllTasks run has
\* synced a task, and a createTask whose insert failed has ended
C22_Witness ==
    \E p1, p2, p3 \in Procs :
        /\ procs[p1].kind = "createTask" /\ procs[p1].pc = "done"
        /\ procs[p1].syncToGoogle /\ Len(events) > 0 /\ events[1] = procs[p1].task
        /\ procs[p2].kind = "syncAllTasks" /\ procs[p2].pc = "done"
        /\ procs[p2].synced = 1
        /\ procs[p3].kind = "createTask" /\ procs[p3].pc = "failed"
        /\ procs[p3].error = "Database error"

\* the tasks for which p has called googleCalendar.createEvent, in call order
EventAttempts(p) ==
    LET made == SelectSeq(procs[p].calls,
                          LAMBDA c : c.op = "googleCalendar.createEvent")
    IN  [k \in 1..Len(made) |-> made[k].arg]

Successes(results) == Len(SelectSeq(results, LAMBDA r : r.success))

\* C23: syncAllTasks never aborts because a Google call failed for one task
\* (it only fails when the fetch of the unsynced tasks fails, before any
\* Google call): every unsynced task fetched at the start is attempted
\* exactly once, in the order fetched; when the run returns, synced + failed
\* is the number of unsynced tasks; and a task is counted as synced only when
\* its sync produced no error (its event exists).
C23_SyncRunsToTheEnd ==
    \A p \in Procs :
        procs[p].kind = "syncAllTasks" =>
            LET me == procs[p]
            IN  /\ me.pc = "failed" => Len(me.unsynced) = 0 /\ Len(EventAttempts(p)) = 0
                /\ EventAttempts(p) = SubSeq(me.unsynced, 1, me.i)
                /\ \A j, k \in 1..Len(me.unsynced) : j # k => me.unsynced[j] # me.unsynced[k]
                /\ me.synced + me.failed = Len(me.results)
                /\ me.synced = Successes(me.results)
                /\ me.pc = "done" =>
                      /\ me.i = Len(me.unsynced)
                      /\ me.synced + me.failed = Len(me.unsynced)
                /\ \A k \in 1..Len(me.results) :
                      /\ me.results[k].taskId = me.unsynced[k]
                      /\ me.results[k].success <=> Len(me.results[k].errors) = 0
                      /\ me.results[k].success =>
                            \E e \in 1..Len(events) : events[e] = me.results[k].taskId

\* a run over two unsynced tasks has ended: the Google call failed for the
\* first one, and the second one is synced
C23_Witness ==
    \E p \in Procs :
        /\ procs[p].kind = "syncAllTasks" /\ procs[p].pc = "done"
        /\ Len(procs[p].unsynced) = 2
        /\ ~procs[p].results[1].success /\ procs[p].results[2].success
        /\ procs[p].synced = 1 /\ procs[p].failed = 1

EventsOf(t) == {e \in 1..Len(events) : events[e] = t}

\* no call into taskManager is under way
Quiescent == \A p \in Procs : procs[p].pc \in {"idle", "done", "failed"}

\* C28: across any sequence of sync runs (syncAllTasks / syncTaskToGoogle),
\* including runs in which the database update of the sync info fails after
\* the Google call succeeded, at most one Google Calendar event is created
\* per task, and (once no run is under way) a task has a
\* google_calendar_event_id exactly when an event was created for it.
C28_OneEventPerTask ==
    \A t \in 1..Len(tasks) :
        /\ Cardinality(EventsOf(t)) <= 1
        /\ Quiescent => (tasks[t].google_calendar_event_id # 0 <=> EventsOf(t) # {})

(***************************************************************************)
(* Ingestion against concurrent queries                                    *)
(***************************************************************************)
\* the chunks of document d a fetch of searchSimilar observes in the state
ObservedOf(d) ==
    SelectSeq(FetchAllChunks(chunkRows), LAMBDA chunk : chunk.document_id = d)

ObservedIndices(d) ==
    {ObservedOf(d)[k].metadata.chunkIndex : k \in 1..Len(ObservedOf(d))}

\* in every state, what a fetch observes of a document is a prefix of its
\* chunk indices
C24_State ==
    \A d \in 1..Len(documents) :
        /\ ObservedIndices(d) = 0..(Len(ObservedOf(d)) - 1)
        /\ Len(ObservedOf(d)) <= Len(ingests[documents[d]].chunks)

\* no step takes a chunk away from what a fetch observes of a document, and
\* no step changes the document or the index of a stored chunk
C24_Step ==
    /\ \A d \in 1..Len(documents) : Len(ObservedOf(d))' >= Len(ObservedOf(d))
    /\ Len(chunkRows') >= Len(chunkRows)
    /\ \A k \in 1..Len(chunkRows) :
          /\ chunkRows'[k].document_id = chunkRows[k].document_id
          /\ chunkRows'[k].metadata.chunkIndex = chunkRows[k].metadata.chunkIndex

\* C24: for every interleaving of an ingestion with concurrent queries, the
\* chunks of the document being ingested that a query's fetch observes form
\* a prefix 0..k-1 of that document's chunk indices (0 <= k <= chunkCount), k
\* never decreases from one fetch to a later one, and a concurrent ingestion
\* of another document never changes which document a stored chunk belongs
\* to or its index.
C24_PrefixObserved == []C24_State /\ [][C24_Step]_vars

\* a query has fetched the one chunk stored so far of a document of two
\* chunks, whose ingestion goes on beside the ingestion of another document
C24_Witness ==
    \E r1, r2 \in Ingests, q \in Queries :
        /\ r1 # r2
        /\ ingests[r1].pc = "inserting" /\ ingests[r1].i = 1
        /\ Len(ingests[r1].chunks) = 2
        /\ ingests[r2].pc = "inserting" /\ ingests[r2].i = 0
        /\ Len(chunkRows) = 1
        /\ queries[q].searched /\ queries[q].fetched = 1

(***************************************************************************)
(* The windows of chunkText                                                *)
(***************************************************************************)
\* one iteration of the loop, for a caller that passed chunkSize > 0 and an
\* overlap with 0 <= overlap < chunkSize (a call that passes overlap: 0 runs
\* as the call that passes no overlap; the claim is read for the former)
C25_WindowStep ==
    (ckPc = "loop" /\ ckIters' = ckIters + 1 /\ CallerWithinContract) =>
        LET endChar == Min(ckLoop.startIndex + ckIn.optChunkSize, Len(ckNorm))
            emitted == ckLoop'.chunks[Len(ckLoop'.chunks)]
        IN  /\ ~ckLoop'.done => ckLoop'.startIndex = endChar - ckIn.optOverlap
            /\ Len(ckLoop'.chunks) > Len(ckLoop.chunks) =>
                  /\ emitted.startChar = ckLoop.startIndex
                  /\ emitted.endChar = endChar
                  /\ emitted.content = SubSeq(ckNorm, emitted.startChar + 1, endChar)

\* C25: each chunk emitted by chunkText has content equal to
\* normalizedText[startChar, endChar) with endChar = min(startChar +
\* chunkSize, len), the first window starts at 0, and the window following
\* one that ends at endChar starts at endChar - overlap, for the chunkSize
\* and overlap the caller passed.
C25_WindowsAsPassed ==
    /\ []((ckPc = "loop" /\ ckIters = 0) => ckLoop.startIndex = 0)
    /\ [][C25_WindowStep]_vars

(***************************************************************************)
(* Calendar agent: study plans (studyPlans.js, applyStudyPlan).  A plan's  *)
(* id is its position in the table; its plan_json is kept as the schedule, *)
(* the days with their numbers of sessions.                                *)
(***************************************************************************)
Users == {"u1", "u2"}

\* the calls of applyStudyPlan in SpecPlan
Appliers == {"p1", "p2"}

\* planRecord.status === 'applied'
IsApplied(planRecord) == planRecord.status = "applied"

Schedules ==
    UNION {[1..n -> [day : {1}, sessions : 0..MaxSessions]] : n \in 0..MaxDays}

\* plan.schedule of day numbers 1, 2, ...
Numbered(schedule) ==
    [d \in 1..Len(schedule) |-> [schedule[d] EXCEPT !.day = d]]

\* studyPlansDb.createStudyPlan: the plan is stored as a draft
CreateStudyPlan(userId, schedule) ==
    /\ Len(studyPlans) < MaxPlans
    /\ studyPlans' = Append(studyPlans,
           [user_id |-> userId, status |-> "draft", applied_at |-> 0,
            plan_json |-> [schedule |-> Numbered(schedule)]])
    /\ UNCHANGED <<config, ckVars, emVars, rqVars, tasks, events, gtasks,
                   integration, tokenCalls, procs>>

\* applyStudyPlan(userId, planId, timezone) is called and awaits getStudyPlan
ApplyCall(p, userId, planId) ==
    /\ procs[p].pc = "idle"
    /\ procs' = [procs EXCEPT ![p] =
            [@ EXCEPT !.kind = "applyStudyPlan", !.userId = userId,
                      !.plan = planId, !.pc = "fetchingPlan",
                      !.calls = Append(@, Call("studyPlansDb.getStudyPlan", planId))]]
    /\ UNCHANGED <<config, ckVars, emVars, rqVars, tasks, events, gtasks,
                   studyPlans, integration, tokenCalls>>

\* getStudyPlan returns the row (or null): the three checks, then the loop
\* over the schedule starts
ApplyFetchReturns(p) ==
    LET me == procs[p]
        found == me.plan \in 1..Len(studyPlans)
        fail(message) == [me EXCEPT !.pc = "failed", !.error = message]
    IN  /\ me.pc = "fetchingPlan"
        /\ procs' = [procs EXCEPT ![p] =
               IF ~found THEN fail("Study plan not found")
               ELSE IF studyPlans[me.plan].user_id # me.userId
               THEN fail("Unauthorized: This plan belongs to another user")
               ELSE IF IsApplied(studyPlans[me.plan])
               THEN fail("This plan has already been applied to your calendar")
               ELSE ApplyNext([me EXCEPT !.schedule =
                                   studyPlans[me.plan].plan_json.schedule], 1, 1)]
        /\ UNCHANGED <<config, ckVars, emVars, rqVars, tasks, events, gtasks,
                       studyPlans, integration, tokenCalls>>

\* getStudyPlan or updatePlanStatus throws, and so does applyStudyPlan
ApplyDatabaseFails(p) ==
    /\ procs[p].pc \in {"fetchingPlan", "updatingStatus"}
    /\ procs' = [procs EXCEPT ![p] =
            [@ EXCEPT !.pc = "failed", !.error = "Database error"]]
    /\ UNCHANGED <<config, ckVars, emVars, rqVars, tasks, events, gtasks,
                   studyPlans, integration, tokenCalls>>

\* updatePlanStatus(planId, 'applied') succeeds and applyStudyPlan returns
ApplyStatusReturns(p) ==
    LET me == procs[p]
    IN  /\ me.pc = "updatingStatus"
        /\ studyPlans' = [studyPlans EXCEPT ![me.plan] =
               [@ EXCEPT !.status = "applied", !.applied_at = 1]]
        /\ procs' = [procs EXCEPT ![p] = [me EXCEPT !.pc = "done"]]
        /\ UNCHANGED <<config, ckVars, emVars, rqVars, tasks, events, gtasks,
                       integration, tokenCalls>>

InitPlan ==
    /\ config = RagConfig(0, 0, 0)
    /\ ChunkIdle
    /\ EmbedIdle
    /\ RequestsIdle
    /\ AgentIdle

NextPlan ==
    \/ \E userId \in Users, schedule \in Schedules : CreateStudyPlan(userId, schedule)
    \/ \E p \in Appliers :
          \/ \E userId \in Users, planId \in 1..MaxPlans : ApplyCall(p, userId, planId)
          \/ ApplyFetchReturns(p)
          \/ ApplyDatabaseFails(p)
          \/ TaskInsertReturns(p)
          \/ TaskInsertFails(p)
          \/ ApplyStatusReturns(p)

SpecPlan == InitPlan /\ [][NextPlan]_vars

\* the calls of applyStudyPlan for the plan that have created a task
CreatorsOf(plan) ==
    {p \in Procs : /\ procs[p].kind = "applyStudyPlan"
                   /\ procs[p].plan = plan
                   /\ procs[p].tasksCreated > 0}

\* C26: a study plan is applied at most once: applyStudyPlan on a plan whose
\* status is 'applied' fails with the 'already been applied' conflict and
\* creates no tasks, so over any sequence or interleaving of applyStudyPlan
\* calls for one plan the plan's tasks are created by at most one of the
\* calls.
C26_AppliedAtMostOnce ==
    /\ \A p \in Procs :
          procs[p].error = "This plan has already been applied to your calendar" =>
              procs[p].pc = "failed" /\ procs[p].tasksCreated = 0
    /\ \A plan \in 1..Len(studyPlans) : Cardinality(CreatorsOf(plan)) <= 1

\* the task rows created for day d of the plan
RowsOfDay(plan, d) ==
    {t \in 1..Len(tasks) : tasks[t].description = plan /\ tasks[t].deadline = d}

\* C27: a study plan is created with status 'draft' and becomes 'applied'
\* only through applyStudyPlan; when applyStudyPlan has set the status to
\* 'applied', the tasks of every day of the plan's schedule have been
\* created (tasksCreated is the sum of the sessions over the schedule): a
\* plan is never marked applied while some of its days produced no tasks.
C27_AppliedMeansAllCreated ==
    \A plan \in 1..Len(studyPlans) :
        studyPlans[plan].status = "applied" =>
            /\ \E p \in Procs : procs[p].plan = plan /\ procs[p].pc = "done"
            /\ \A p \in Procs :
                  (procs[p].plan = plan /\ procs[p].pc = "done") =>
                      Len(procs[p].dayErrors) = 0
            /\ \A d \in 1..Len(studyPlans[plan].plan_json.schedule) :
                  Cardinality(RowsOfDay(plan, d))
                      >= studyPlans[plan].plan_json.schedule[d].sessions

(***************************************************************************)
(* The embedding pipeline after a failed load                              *)
(***************************************************************************)
LoadFailed == \E l \in 1..Len(loads) : loads[l].state = "rejected"

\* once the load has failed it is the only load there is, no pipeline
\* exists, and no call has got one or returned
C29_State ==
    LoadFailed =>
        /\ Len(loads) = 1
        /\ embeddingPipeline = 0
        /\ handedOut = {}
        /\ \A c \in Callers : callers[c].pc \notin {"extract", "done"}

\* once the load has failed no step starts a load or replaces the promise; a
\* call made then either fails at once (an empty text) or waits for the
\* rejected promise, and a call that waits for it goes on only by failing
C29_Step ==
    LoadFailed =>
        /\ loads' = loads
        /\ pipelinePromise' = pipelinePromise
        /\ \A c \in Callers :
              /\ (callers[c].pc = "start" /\ callers'[c].pc # "start") =>
                    \/ callers'[c].pc = "failed" /\ callers'[c].error # "none"
                    \/ callers'[c].awaiting = Promise(1)
              /\ (callers[c].awaiting = Promise(1) /\ callers'[c] # callers[c]) =>
                    callers'[c].pc = "failed" /\ callers'[c].error # "none"

\* C29: if the single model load fails, the embedding handle stays failed
\* for the rest of the process: no later call of getEmbeddingPipeline /
\* generateEmbedding starts a new load, and every later embedding call fails
\* with an error (none returns a pipeline or a vector).
C29_FailedLoadStaysFailed == []C29_State /\ [][C29_Step]_vars

\* the load has failed, one call has failed with it, another call waits for
\* the rejected promise and a third is still to be made
C29_Witness ==
    /\ loads = <<[state |-> "rejected", instance |-> 0]>>
    /\ \E c1, c2, c3 \in Callers :
          /\ callers[c1].pc = "failed" /\ callers[c1].error = "load failed"
          /\ callers[c2].kind = "generateEmbedding"
          /\ callers[c2].awaiting = Promise(1)
          /\ callers[c3].pc = "start"

(***************************************************************************)
(* Calendar agent: the stored OAuth tokens of the user (userIntegrations). *)
(* "" stands for a refresh token that is null or absent, 0 for an expiry   *)
(* date that is absent.                                                    *)
(***************************************************************************)
\* the tokens Google answers with: always an access token, not always a
\* refresh token or an expiry date
TokenInputs ==
    [access_token : {"a1", "a2"}, refresh_token : {"", "r1", "r2"},
     expiry_date : {0, 1}]

RefreshTokenToStoreAlways(tokens, row) == tokens.refresh_token

\* record.refresh_token is set only if (tokens.refresh_token); the upsert
\* writes the columns of the record and leaves the others as they are
RefreshTokenToStore(tokens, row) ==
    IF tokens.refresh_token # "" THEN tokens.refresh_token ELSE row.refresh_token

TokenCall(fn, tokens, ok) ==
    [fn |-> fn, access_token |-> tokens.access_token,
     refresh_token |-> tokens.refresh_token, expiry_date |-> tokens.expiry_date,
     ok |-> ok]

\* storeGoogleTokens(userId, tokens): the upsert succeeds (dbOk) or the
\* function throws a database error
StoreGoogleTokens(tokens, dbOk) ==
    /\ Len(tokenCalls) < MaxTokenCalls
    /\ integration' =
           IF dbOk
           THEN [stored |-> TRUE,
                 access_token |-> tokens.access_token,
                 refresh_token |-> RefreshTokenToStore(tokens, integration),
                 token_expiry |-> tokens.expiry_date]
           ELSE integration
    /\ tokenCalls' = Append(tokenCalls, TokenCall("storeGoogleTokens", tokens, dbOk))
    /\ UNCHANGED <<config, ckVars, emVars, rqVars, tasks, events, gtasks,
                   studyPlans, procs>>

\* updateAccessToken(userId, accessToken, expiryDate): new Date(undefined)
\* .toISOString() throws; the update of no row, or a database error, makes
\* the function throw; else the row's access token and expiry are replaced
UpdateAccessToken(accessToken, expiryDate, dbOk) ==
    LET ok == expiryDate # 0 /\ integration.stored /\ dbOk
    IN  /\ Len(tokenCalls) < MaxTokenCalls
        /\ integration' =
               IF ok
               THEN [integration EXCEPT !.access_token = accessToken,
                                        !.token_expiry = expiryDate]
               ELSE integration
        /\ tokenCalls' = Append(tokenCalls,
               TokenCall("updateAccessToken",
                         [access_token |-> accessToken, refresh_token |-> "",
                          expiry_date |-> expiryDate], ok))
        /\ UNCHANGED <<config, ckVars, emVars, rqVars, tasks, events, gtasks,
                       studyPlans, procs>>

InitTokens ==
    /\ config = RagConfig(0, 0, 0)
    /\ ChunkIdle
    /\ EmbedIdle
    /\ RequestsIdle
    /\ AgentIdle

NextTokens ==
    \/ \E tokens \in TokenInputs, dbOk \in BOOLEAN : StoreGoogleTokens(tokens, dbOk)
    \/ \E accessToken \in {"a1", "a2"}, expiryDate \in {0, 1}, dbOk \in BOOLEAN :
          UpdateAccessToken(accessToken, expiryDate, dbOk)

SpecTokens == InitTokens /\ [][NextTokens]_vars

\* the calls that took effect, in order
Effective == SelectSeq(tokenCalls, LAMBDA c : c.ok)

\* the store calls that took effect and supplied a refresh token
Supplying ==
    SelectSeq(Effective,
              LAMBDA c : c.fn = "storeGoogleTokens" /\ c.refresh_token # "")

Last(seq) == seq[Len(seq)]

C30_State ==
    /\ integration.stored <=> \E k \in 1..Len(Effective) : Effective[k].fn = "storeGoogleTokens"
    /\ integration.stored =>
          /\ integration.refresh_token =
                IF Len(Supplying) = 0 THEN "" ELSE Last(Supplying).refresh_token
          /\ integration.access_token = Last(Effective).access_token
          /\ integration.token_expiry = Last(Effective).expiry_date

\* C30: storeGoogleTokens and updateAccessToken never replace a stored
\* refresh token with an empty one: after any sequence of token stores and
\* access-token refreshes for a user, the stored refresh_token is the one of
\* the most recent store call that supplied a non-empty refresh_token, while
\* access_token and token_expiry are those of the latest call (calls that
\* threw are not counted: they leave the row as it was).
C30_RefreshTokenKept ==
    /\ []C30_State
    /\ [][integration.refresh_token # "" => integration'.refresh_token # ""]_vars

\* a refresh token was stored, then a store without a refresh token and an
\* access-token refresh took effect
C30_Witness ==
    /\ Len(Effective) = 3
    /\ Effective[1].fn = "storeGoogleTokens" /\ Effective[1].refresh_token = "r1"
    /\ Effective[2].fn = "storeGoogleTokens" /\ Effective[2].refresh_token = ""
    /\ Effective[2].access_token = "a2"
    /\ Effective[3].fn = "updateAccessToken" /\ Effective[3].access_token = "a1"
    /\ integration.refresh_token = "r1"

====
